---- MODULE Spec2Model ----
(***************************************************************************)
(* Usage aggregation and agent activity tracking of claude-powerline.      *)
(*                                                                         *)
(* Part 1: OmcProvider.parseTranscriptForSkillAndAgents, the replay of a   *)
(* transcript into the agent registry.  The repository holds two revisions *)
(* of the provider (src/src/segments/omc.ts and src/unnamed/part_006);     *)
(* the variable rev says which one is running.                             *)
(* Part 2: SessionProvider.getSessionInfo, the session usage aggregator.   *)
(***************************************************************************)
EXTENDS Integers, Sequences, FiniteSets, TLC

\* ------------------------------------------------------------------------
\* Bounds of the model
\* ------------------------------------------------------------------------
\* MAX_AGENT_MAP_SIZE is 50 in the source (omc.ts:8); the model scales the
\* soft cap down so that a registry at and above the cap is reachable.
MAX_AGENT_MAP_SIZE == 2
\* MAX_DISPLAY_AGENTS is 10 in the source (part_006:11, the literal 10 of
\* omc.ts:369); scaled down like the soft cap.
MAX_DISPLAY_AGENTS == 2
\* Number of distinct tool_use ids a transcript may use.
MaxIds == 3
\* Number of distinct background agent ids.
MaxBgIds == 1
\* Timestamps and the clock range over 0..MaxTicks staleness thresholds.
MaxTicks == 2
\* Number of transcript lines one replay processes.
MaxLines == 3
\* Number of lines of the primary transcript the usage aggregator reads.
MaxEntryLines == 2
\* Number of files under the subagents/ directory of the session.
MaxAgentFiles == 1
\* maxLines is 30 in the source (session.ts:363); the model scales it down so
\* that a file longer than the limit is read.
maxLines == 2
\* Number of 'line' events the readline interface emits for one file.
MaxReaderLines == 3

\* ------------------------------------------------------------------------
\* Program constants
\* ------------------------------------------------------------------------
STALE_AGENT_THRESHOLD_MS == 30 * 60 * 1000

\* ------------------------------------------------------------------------
\* Values
\* ------------------------------------------------------------------------
Ids == 1..MaxIds
\* A tool_use_id that no Task launch carries (the result of another tool).
OtherId == MaxIds + 1
\* Absent id (Map.get returned undefined, oldestId is null).
NoId == 0
BgIds == 1..MaxBgIds
NoBg == 0
\* A missing timestamp, an undefined endTime.
Undefined == 0 - 1

\* x || 0 on a token count.
OrZero(x) == IF x = Undefined THEN 0 ELSE x

Times == {k * STALE_AGENT_THRESHOLD_MS : k \in 0..MaxTicks}

Revisions == {"omc.ts", "part_006"}

\* The status strings a task-notification or TaskOutput may carry, and the
\* ones the transcripts of the model use.
AllStatusStrings ==
    {"completed", "failed", "error", "cancelled", "COMPLETED", "Failed", "ERROR",
     "Cancelled", "running", "pending", "started", "unknown"}

StatusStrings == {"completed", "Failed", "running"}

\* String.prototype.toLowerCase on the status strings.
toLowerCase(s) ==
    CASE s = "COMPLETED" -> "completed"
      [] s = "Failed" -> "failed"
      [] s = "ERROR" -> "error"
      [] s = "Cancelled" -> "cancelled"
      [] OTHER -> s

\* The captures of <task_id>/<status> (or <task-id>/<status>), or null.
NoSignal == [taskId |-> NoBg, status |-> ""]
Signals == [taskId : BgIds, status : StatusStrings]

NullSkill == "null"
SkillNames == {"commit"}

\* ------------------------------------------------------------------------
\* Transcript lines
\* ------------------------------------------------------------------------
\* The blocks of entry.message.content.
SkillBlocks == [kind : {"skill"}, skill : SkillNames \cup {""}]

LaunchBlocks == [kind : {"launch"}, id : Ids]

\* The content of a tool_result: whether it contains 'Async agent launched',
\* the capture of /agentId:\s*([\w-]+)/ and the TaskOutput captures.
ResultContents ==
    {[async |-> FALSE, agentId |-> NoBg, taskOut |-> NoSignal]}
    \cup [async : {TRUE}, agentId : BgIds \cup {NoBg}, taskOut : {NoSignal}]
    \cup [async : {FALSE}, agentId : {NoBg}, taskOut : Signals]

ResultBlocks ==
    {[kind |-> "result", id |-> i, async |-> c.async, agentId |-> c.agentId,
      taskOut |-> c.taskOut] : i \in Ids \cup {OtherId}, c \in ResultContents}

Blocks == SkillBlocks \cup LaunchBlocks \cup ResultBlocks

\* A line: its timestamp (Undefined when missing or invalid), its blocks,
\* whether JSON.parse or a block after these throws, and the
\* task-notification captures of entry.message.content and entry.content.
BlockLines ==
    {[timestamp |-> t, blocks |-> <<b>>, throws |-> FALSE, msg |-> NoSignal,
      ent |-> NoSignal] : t \in Times \cup {Undefined}, b \in Blocks}

NotificationLines ==
    {[timestamp |-> t, blocks |-> << >>, throws |-> FALSE, msg |-> m, ent |-> e] :
        t \in Times \cup {Undefined},
        m \in Signals \cup {NoSignal}, e \in Signals \cup {NoSignal}}

\* An assistant message that launches two agents at once.
DoubleLaunchLines ==
    {[timestamp |-> t, blocks |-> <<b1, b2>>, throws |-> FALSE, msg |-> NoSignal,
      ent |-> NoSignal] :
        t \in Times \cup {Undefined}, b1 \in LaunchBlocks, b2 \in LaunchBlocks}

ThrowingLines ==
    {[timestamp |-> t, blocks |-> bs, throws |-> TRUE, msg |-> NoSignal,
      ent |-> NoSignal] :
        t \in Times \cup {Undefined},
        bs \in {<< >>} \cup {<<b>> : b \in LaunchBlocks \cup SkillBlocks}}

Lines == BlockLines \cup DoubleLaunchLines \cup NotificationLines \cup ThrowingLines

\* ------------------------------------------------------------------------
\* State
\* ------------------------------------------------------------------------
VARIABLES
    rev,                \* the revision of OmcProvider that runs
    clock,              \* Date.now() of the replay
    pc,                 \* "replay" (in the loop over the lines), "done" or "failed"
    nlines,             \* lines processed so far
    logTime,            \* the latest valid entry.timestamp of these lines
    agentMap,           \* Map<string, ActiveAgent>, in insertion order
    backgroundAgentMap, \* bgAgentId -> tool_use_id
    lastSkill,          \* lastSkill.name
    cause,              \* history: what completed the record of each id
    agents,             \* the returned agents list
    enrichment          \* tokens and cost of each returned record, in list order

omcVars == <<rev, clock, pc, nlines, logTime, agentMap, backgroundAgentMap,
             lastSkill, cause, agents, enrichment>>

\* The usage aggregator (SessionProvider).
VARIABLES
    transcriptExists,   \* findTranscriptFile finds the primary transcript
    transcript,         \* the lines of the primary transcript
    agentTranscripts,   \* the agent-*.jsonl files under subagents/
    call,               \* the hook data and the failure of the getSessionInfo call
    sessionInfo,        \* the SessionInfo returned
    spc                 \* "writing" (the host appends) or "done" (info returned)

sessionVars == <<transcriptExists, transcript, agentTranscripts, call, sessionInfo,
                 spc>>

\* The rate-limit cache (RateLimitsProvider).
VARIABLES
    dateNow,            \* Date.now()
    cacheDir,           \* the cache directory exists
    cacheFile,          \* rate-limits-cache.json: whether it exists, its text
    inv,                \* the invocations of fetchFromOAuthAPI
    lastWriter          \* history: the invocation whose text was written last

cacheVars == <<dateNow, cacheDir, cacheFile, inv, lastWriter>>

\* The context segment (ContextProvider).
VARIABLES
    contextInfo         \* the ContextInfo returned, and by which revision

\* The reader of the first prompt (SessionSummaryProvider.readFirstUserMessage).
VARIABLES
    reader              \* the locals of the promise executor, and history

\* What the actions of one part leave alone.
exceptOmc == <<sessionVars, cacheVars, contextInfo, reader>>
exceptSession == <<omcVars, cacheVars, contextInfo, reader>>
exceptCache == <<omcVars, sessionVars, contextInfo, reader>>

vars == <<omcVars, sessionVars, cacheVars, contextInfo, reader>>

\* ------------------------------------------------------------------------
\* Map<string, ActiveAgent> as a sequence in insertion order
\* ------------------------------------------------------------------------
MapHas(m, i) == \E k \in 1..Len(m) : m[k].id = i

MapIndex(m, i) == CHOOSE k \in 1..Len(m) : m[k].id = i

MapGet(m, i) == m[MapIndex(m, i)]

\* Map.set: an existing key keeps its position, a new key goes last.
MapSet(m, r) ==
    IF MapHas(m, r.id) THEN [m EXCEPT ![MapIndex(m, r.id)] = r]
    ELSE Append(m, r)

MapDelete(m, i) == SelectSeq(m, LAMBDA r : r.id # i)

MapIds(m) == {m[k].id : k \in 1..Len(m)}

\* ------------------------------------------------------------------------
\* Eviction (omc.ts:250-282)
\* ------------------------------------------------------------------------
\* Priority 1: the first record in map order among the completed ones of
\* minimal startTime (the loop replaces its candidate on strict < only).
OldestCompleted(m) ==
    LET C == {k \in 1..Len(m) : m[k].status = "completed"}
        Best == {k \in C : \A j \in C : m[k].startTime <= m[j].startTime}
    IN  IF C = {} THEN NoId
        ELSE m[CHOOSE k \in Best : \A j \in Best : k <= j].id

\* Priority 2: the oldest running record that runs for more than 30 minutes.
OldestStaleRunning(m, now) ==
    LET C == {k \in 1..Len(m) : /\ m[k].status = "running"
                                /\ now - m[k].startTime > STALE_AGENT_THRESHOLD_MS}
        Best == {k \in C : \A j \in C : m[k].startTime <= m[j].startTime}
    IN  IF C = {} THEN NoId
        ELSE m[CHOOSE k \in Best : \A j \in Best : k <= j].id

\* A policy that evicts the oldest record, whatever its status and age.
EvictionCandidateOldestOfAll(m, now) ==
    LET Best == {k \in 1..Len(m) : \A j \in 1..Len(m) : m[k].startTime <= m[j].startTime}
    IN  IF m = << >> THEN NoId
        ELSE m[CHOOSE k \in Best : \A j \in Best : k <= j].id

EvictionCandidate(m, now) ==
    IF OldestCompleted(m) # NoId THEN OldestCompleted(m)
    ELSE OldestStaleRunning(m, now)

Evict(m, now) ==
    IF Len(m) >= MAX_AGENT_MAP_SIZE /\ EvictionCandidate(m, now) # NoId
    THEN MapDelete(m, EvictionCandidate(m, now))
    ELSE m

NewAgent(i, t) ==
    [id |-> i, status |-> "running", startTime |-> t, endTime |-> Undefined,
     bgAgentId |-> NoBg]

\* A Task / proxy_Task tool_use block.
LaunchAgent(m, i, t, now) == MapSet(Evict(m, now), NewAgent(i, t))

\* ------------------------------------------------------------------------
\* Completion signals
\* ------------------------------------------------------------------------
isTerminalStatus(s) ==
    toLowerCase(s) \in {"completed", "failed", "error", "cancelled"}

\* The test of the TaskOutput status: omc.ts:320 compares with 'completed',
\* part_006:340 uses isTerminalStatus.
TaskOutputTerminal(r, s) ==
    IF r = "omc.ts" THEN s = "completed" ELSE isTerminalStatus(s)

Complete(a, t) == [a EXCEPT !.status = "completed", !.endTime = t]

\* A completion that, for a task id nobody registered, takes the first running
\* record.
CompleteBackgroundGuessing(m, bg, taskId, t) ==
    LET i == bg[taskId]
        running == {k \in 1..Len(m) : m[k].status = "running"}
    IN  IF i # NoId
        THEN IF MapHas(m, i) /\ MapGet(m, i).status = "running"
             THEN MapSet(m, Complete(MapGet(m, i), t))
             ELSE m
        ELSE IF running # {}
             THEN MapSet(m, Complete(m[CHOOSE k \in running : \A j \in running : k <= j], t))
             ELSE m

\* bgAgent = agentMap.get(backgroundAgentMap.get(taskId)); completed when it
\* is still running.
CompleteBackground(m, bg, taskId, t) ==
    LET i == bg[taskId]
    IN  IF i # NoId /\ MapHas(m, i) /\ MapGet(m, i).status = "running"
        THEN MapSet(m, Complete(MapGet(m, i), t))
        ELSE m

\* A foreground completion that sets the status and forgets the endTime.
ResultAgentMapWithoutEndTime(r, m, b, t) ==
    IF ~MapHas(m, b.id) \/ b.async THEN m
    ELSE MapSet(m, [MapGet(m, b.id) EXCEPT !.status = "completed"])

\* A tool_result that, for an id the registry does not hold, puts a completed
\* record back.
ResultAgentMapCreating(r, m, b, t) ==
    IF ~MapHas(m, b.id)
    THEN IF b.async THEN m ELSE Append(m, Complete(NewAgent(b.id, t), t))
    ELSE IF b.async
         THEN IF b.agentId # NoBg /\ r = "part_006"
              THEN MapSet(m, [MapGet(m, b.id) EXCEPT !.bgAgentId = b.agentId])
              ELSE m
         ELSE MapSet(m, Complete(MapGet(m, b.id), t))

\* The agent part of a tool_result block (omc.ts:289-316, part_006:302-336).
ResultAgentMap(r, m, b, t) ==
    IF ~MapHas(m, b.id) THEN m
    ELSE IF b.async
         THEN IF b.agentId # NoBg /\ r = "part_006"
              THEN MapSet(m, [MapGet(m, b.id) EXCEPT !.bgAgentId = b.agentId])
              ELSE m
         ELSE MapSet(m, Complete(MapGet(m, b.id), t))

ResultBackgroundMap(m, bg, b) ==
    IF MapHas(m, b.id) /\ b.async /\ b.agentId # NoBg
    THEN [bg EXCEPT ![b.agentId] = b.id]
    ELSE bg

\* The TaskOutput part of a tool_result block (omc.ts:318-329).
ResultTaskOutput(r, m, bg, b, t) ==
    IF b.taskOut # NoSignal /\ TaskOutputTerminal(r, b.taskOut.status)
    THEN CompleteBackground(m, bg, b.taskOut.taskId, t)
    ELSE m

\* A notification handler that knows the status 'completed' only.
NotificationCompletedOnly(m, bg, sig, t) ==
    IF sig # NoSignal /\ sig.status = "completed"
    THEN CompleteBackground(m, bg, sig.taskId, t)
    ELSE m

\* One source of task-notification (omc.ts:337-347).
Notification(m, bg, sig, t) ==
    IF sig # NoSignal /\ isTerminalStatus(sig.status)
    THEN CompleteBackground(m, bg, sig.taskId, t)
    ELSE m

\* ------------------------------------------------------------------------
\* Stale pass and output assembly (omc.ts:354-369)
\* ------------------------------------------------------------------------
\* A stale pass that ends the record at the time of the pass.
StaleCompleteAtNow(a, now) ==
    IF a.status = "running" /\ now - a.startTime > STALE_AGENT_THRESHOLD_MS
    THEN Complete(a, now)
    ELSE a

\* if (agent.status === 'running' && now - startTime > STALE) (omc.ts:356-363)
StaleComplete(a, now) ==
    IF a.status = "running" /\ now - a.startTime > STALE_AGENT_THRESHOLD_MS
    THEN Complete(a, a.startTime + STALE_AGENT_THRESHOLD_MS)
    ELSE a

StalePass(m, now) == [k \in 1..Len(m) |-> StaleComplete(m[k], now)]

\* Array.prototype.slice(start) and slice(0, end).
SliceFrom(s, start) ==
    LET from == IF start < 0 THEN (IF Len(s) + start < 0 THEN 0 ELSE Len(s) + start)
                ELSE (IF start > Len(s) THEN Len(s) ELSE start)
    IN  SubSeq(s, from + 1, Len(s))

SliceTo(s, end) == SubSeq(s, 1, IF end > Len(s) THEN Len(s) ELSE end)

Running(m) == SelectSeq(m, LAMBDA a : a.status = "running")

Completed(m) == SelectSeq(m, LAMBDA a : a.status = "completed")

\* An assembly that fills the list with the oldest completed records.
DisplayAgentsOldestCompleted(m) ==
    SliceTo(Running(m) \o Completed(m), MAX_DISPLAY_AGENTS)

\* [...running, ...completed.slice(-(10 - running.length))].slice(0, 10)
DisplayAgents(m) ==
    SliceTo(Running(m) \o SliceFrom(Completed(m), 0 - (MAX_DISPLAY_AGENTS - Len(Running(m)))),
            MAX_DISPLAY_AGENTS)

\* ------------------------------------------------------------------------
\* The replay
\* ------------------------------------------------------------------------
\* The loop state: [map, bg, skill].
\* One block of entry.message.content (omc.ts:228-331).
ProcessBlock(r, st, b, t, now) ==
    IF b.kind = "skill"
    THEN [st EXCEPT !.skill = IF b.skill # "" THEN b.skill ELSE st.skill]
    ELSE IF b.kind = "launch"
    THEN [st EXCEPT !.map = LaunchAgent(st.map, b.id, t, now)]
    ELSE LET bg == ResultBackgroundMap(st.map, st.bg, b)
         IN  [st EXCEPT !.bg = bg,
                        !.map = ResultTaskOutput(r, ResultAgentMap(r, st.map, b, t),
                                                 bg, b, t)]

RECURSIVE ProcessBlocks(_, _, _, _, _)
ProcessBlocks(r, st, bs, t, now) ==
    IF bs = << >> THEN st
    ELSE ProcessBlocks(r, ProcessBlock(r, st, Head(bs), t, now), Tail(bs), t, now)

\* The task-notifications of entry.message.content, then of entry.content
\* (omc.ts:335-348).
ProcessNotifications(st, l, t) ==
    [st EXCEPT !.map = Notification(Notification(st.map, st.bg, l.msg, t),
                                    st.bg, l.ent, t)]

\* timestamp = a valid entry.timestamp, else new Date() (omc.ts:224-225).
LineTime(l, now) == IF l.timestamp = Undefined THEN now ELSE l.timestamp

\* The body of the loop: try { ... } catch { continue } (omc.ts:220-352).
\* What the blocks before a throw did is kept; the notifications are not
\* reached.
ProcessLine(r, st, l, now) ==
    LET t == LineTime(l, now)
        afterBlocks == ProcessBlocks(r, st, l.blocks, t, now)
    IN  IF l.throws THEN afterBlocks
        ELSE ProcessNotifications(afterBlocks, l, t)

IsRunning(m, i) == MapHas(m, i) /\ MapGet(m, i).status = "running"

IsCompleted(m, i) == MapHas(m, i) /\ MapGet(m, i).status = "completed"

\* History of the replay: which kind of record completed the record of id i
\* ("result", "taskoutput", "notification", "stale"), "" while it runs or is
\* not in the registry.
CauseAfter(m, m2, c, l, i) ==
    IF ~IsCompleted(m2, i) THEN ""
    ELSE IF IsCompleted(m, i) /\ MapGet(m, i) = MapGet(m2, i) THEN c[i]
    ELSE IF l.blocks = << >> THEN "notification"
    ELSE IF l.blocks[1].kind = "result" /\ l.blocks[1].id = i /\ ~l.blocks[1].async
    THEN "result"
    ELSE "taskoutput"

InitOmc ==
    /\ rev \in Revisions
    /\ clock = MaxTicks * STALE_AGENT_THRESHOLD_MS
    /\ pc = "replay"
    /\ nlines = 0
    /\ logTime = 0
    /\ agentMap = << >>
    /\ backgroundAgentMap = [b \in BgIds |-> NoId]
    /\ lastSkill = NullSkill
    /\ cause = [i \in Ids |-> ""]
    /\ agents = << >>
    /\ enrichment = << >>

\* The transcript is an append-only log: the timestamps its lines carry do
\* not decrease, and none is later than the replay.  A line may carry none.
Stamps(from) == {t \in Times : t >= from} \cup {Undefined}

StampAfter(from, t) == IF t = Undefined THEN from ELSE t

\* for (const line of lines) { ... }
ReplayLine ==
    /\ pc = "replay"
    /\ nlines < MaxLines
    /\ \E l \in Lines :
          /\ l.timestamp \in Stamps(logTime)
          /\ logTime' = StampAfter(logTime, l.timestamp)
          /\ LET st == ProcessLine(rev, [map |-> agentMap, bg |-> backgroundAgentMap,
                                     skill |-> lastSkill], l, clock)
             IN  /\ agentMap' = st.map
                 /\ backgroundAgentMap' = st.bg
                 /\ lastSkill' = st.skill
                 /\ cause' = [i \in Ids |-> CauseAfter(agentMap, st.map, cause, l, i)]
    /\ nlines' = nlines + 1
    /\ UNCHANGED <<rev, clock, pc, agents, enrichment>>
    /\ UNCHANGED exceptOmc

\* ------------------------------------------------------------------------
\* Token enrichment (part_006:391-483)
\* ------------------------------------------------------------------------
\* The file agent-<bgAgentId>.jsonl of the project directory: absent, present
\* and unreadable, or a sequence of lines, each one not JSON ("garbage"), an
\* entry of another type ("user") or an assistant entry with usage.
TokenFiles ==
    {[exists |-> FALSE, readable |-> FALSE, lines |-> << >>],
     [exists |-> TRUE, readable |-> FALSE, lines |-> << >>]}
    \cup {[exists |-> TRUE, readable |-> TRUE, lines |-> l] :
             l \in {<< >>, <<"garbage">>, <<"user", "assistant">>,
                    <<"assistant", "garbage", "assistant">>}}

\* message.usage of the assistant entries of these files; the cache fields
\* are optional.
AgentUsage ==
    [input_tokens |-> 1000, output_tokens |-> 100,
     cache_creation_input_tokens |-> Undefined, cache_read_input_tokens |-> 0]

\* No tokens (null), and tokens and cost left unset.
NullTokens ==
    [isNull |-> TRUE, input |-> 0, output |-> 0, cacheCreation |-> 0, cacheRead |-> 0]

Unenriched == [tokens |-> NullTokens, cost |-> Undefined, throws |-> FALSE]

\* The sum over the first n lines of a field of the usage of the assistant
\* entries (part_006:443-457).
RECURSIVE SumTokens(_, _, _)
SumTokens(lines, n, field) ==
    IF n = 0 THEN 0
    ELSE SumTokens(lines, n - 1, field)
         + (IF lines[n] = "assistant" THEN OrZero(field) ELSE 0)

\* getAgentTokens (part_006:426-466): null when the file does not exist, when
\* reading it throws, and when no token of any kind was counted.
getAgentTokens(bgAgentId, files) ==
    LET f == files[bgAgentId]
        n == Len(f.lines)
        input == SumTokens(f.lines, n, AgentUsage.input_tokens)
        output == SumTokens(f.lines, n, AgentUsage.output_tokens)
        cacheCreation == SumTokens(f.lines, n, AgentUsage.cache_creation_input_tokens)
        cacheRead == SumTokens(f.lines, n, AgentUsage.cache_read_input_tokens)
    IN  IF ~f.exists THEN NullTokens
        ELSE IF ~f.readable THEN NullTokens
        ELSE IF input > 0 \/ output > 0 \/ cacheCreation > 0 \/ cacheRead > 0
        THEN [isNull |-> FALSE, input |-> input, output |-> output,
              cacheCreation |-> cacheCreation, cacheRead |-> cacheRead]
        ELSE NullTokens

\* PricingService.getModelPricing (./pricing): the rates of a model, in the
\* unit of calculateCostForEntry.
getModelPricing ==
    [input |-> 3, output |-> 15, cache_write_5m |-> 4, cache_read |-> 1]

\* calculateAgentCost (part_006:471-483).
calculateAgentCost(tokens) ==
    (tokens.input * getModelPricing.input + tokens.output * getModelPricing.output
     + tokens.cacheCreation * getModelPricing.cache_write_5m
     + tokens.cacheRead * getModelPricing.cache_read) \div 100

\* The callback of the enrichment for one record (part_006:395-404): only a
\* record with a bgAgentId is looked up; tokens are assigned first, then the
\* cost is awaited, and a pricing collaborator that is unavailable rejects
\* the await.
EnrichAgent(agent, enabled, files, available) ==
    IF ~enabled \/ agent.bgAgentId = NoBg THEN Unenriched
    ELSE LET tokens == getAgentTokens(agent.bgAgentId, files)
         IN  IF tokens.isNull THEN Unenriched
             ELSE IF ~available
             THEN [tokens |-> tokens, cost |-> Undefined, throws |-> TRUE]
             ELSE [tokens |-> tokens, cost |-> calculateAgentCost(tokens),
                   throws |-> FALSE]

\* Promise.all over the returned records (part_006:395).
EnrichAgents(list, enabled, files, available) ==
    [k \in 1..Len(list) |-> EnrichAgent(list[k], enabled, files, available)]

\* A rejected callback rejects Promise.all, which the catch of the parse
\* receives (part_006:415-417).
EnrichmentThrows(e) == \E k \in 1..Len(e) : e[k].throws

\* The end of the parse (stale pass, assembly, enrichment, return; omc.ts:354-381,
\* part_006:372-417): the stale pass completes the records that ran too long,
\* the list is assembled and, in the newer revision, enriched; a rejection
\* inside the enrichment gives the result of the catch.
Finish ==
    /\ pc = "replay"
    /\ \E needsAgentTokens \in BOOLEAN, projectPath \in BOOLEAN,
          files \in [BgIds -> TokenFiles], available \in BOOLEAN :
          LET m == StalePass(agentMap, clock)
              enabled == rev = "part_006" /\ needsAgentTokens /\ projectPath
              e == EnrichAgents(DisplayAgents(m), enabled, files, available)
          IN  IF EnrichmentThrows(e)
              THEN /\ pc' = "failed"
                   /\ lastSkill' = NullSkill
                   /\ agents' = << >>
                   /\ enrichment' = << >>
                   /\ agentMap' = << >>
                   /\ backgroundAgentMap' = [b \in BgIds |-> NoId]
                   /\ UNCHANGED cause
              ELSE /\ pc' = "done"
                   /\ agentMap' = m
                   /\ agents' = DisplayAgents(m)
                   /\ enrichment' = [k \in 1..Len(e) |-> [tokens |-> e[k].tokens,
                                                          cost |-> e[k].cost]]
                   /\ cause' = [i \in Ids |->
                                   IF IsCompleted(m, i) /\ ~IsCompleted(agentMap, i)
                                   THEN "stale" ELSE cause[i]]
                   /\ UNCHANGED <<backgroundAgentMap, lastSkill>>
    /\ UNCHANGED <<rev, clock, nlines, logTime>>
    /\ UNCHANGED exceptOmc

NextOmc ==
    \/ ReplayLine
    \/ Finish

\* ------------------------------------------------------------------------
\* Part 2: the usage aggregator (src/src/segments/session.ts)
\* ------------------------------------------------------------------------
\* null (Undefined is JavaScript's undefined).
Null == 0 - 2

\* a ?? b
Coalesce(a, b) == IF a = Null \/ a = Undefined THEN b ELSE a

\* message.usage of a transcript line; cache fields are optional, and a
\* hand-written line may lack the other two.
FullUsage ==
    [input_tokens |-> 100, output_tokens |-> 20,
     cache_creation_input_tokens |-> 200, cache_read_input_tokens |-> 50]

Usages ==
    {FullUsage,
     [input_tokens |-> 0, output_tokens |-> 0,
      cache_creation_input_tokens |-> Undefined, cache_read_input_tokens |-> Undefined],
     [input_tokens |-> 100, output_tokens |-> 20,
      cache_creation_input_tokens |-> Undefined, cache_read_input_tokens |-> 0],
     [input_tokens |-> Undefined, output_tokens |-> Undefined,
      cache_creation_input_tokens |-> Undefined, cache_read_input_tokens |-> 50]}

NoUsage ==
    [input_tokens |-> Undefined, output_tokens |-> Undefined,
     cache_creation_input_tokens |-> Undefined, cache_read_input_tokens |-> Undefined]

\* Timestamps of usage lines in ms, a minute apart.
EntryTimes == {0, 60000}

\* Costs are integers, in units of 1/100 USD.
ReportedCosts == {0, 7}

\* The lines of a transcript file: one that is not JSON, one without
\* message.usage, and assistant turns with usage, some of which report
\* their costUSD.
GarbageLine ==
    [kind |-> "garbage", timestamp |-> 0, usage |-> NoUsage, costUSD |-> Undefined,
     isSidechain |-> FALSE]

PlainLine ==
    [kind |-> "plain", timestamp |-> 0, usage |-> NoUsage, costUSD |-> Undefined,
     isSidechain |-> FALSE]

\* The usage of the sidechain turn of the model.
SidechainUsage ==
    [input_tokens |-> 1000, output_tokens |-> 100,
     cache_creation_input_tokens |-> Undefined, cache_read_input_tokens |-> 0]

\* A turn of a sub-agent that the host wrote into the primary transcript.
SidechainLine ==
    [kind |-> "usage", timestamp |-> 180000, usage |-> SidechainUsage,
     costUSD |-> Undefined, isSidechain |-> TRUE]

UsageLines ==
    [kind : {"usage"}, timestamp : EntryTimes, usage : Usages, costUSD : {Undefined},
     isSidechain : {FALSE}]
    \cup [kind : {"usage"}, timestamp : {0}, usage : {FullUsage},
          costUSD : ReportedCosts, isSidechain : {FALSE}]
    \cup {SidechainLine}

EntryLines == UsageLines \cup {GarbageLine, PlainLine}

\* The lines the agent transcripts of the model hold.
AgentEntryLines ==
    {l \in UsageLines : /\ l.timestamp = 60000
                        /\ l.costUSD = Undefined
                        /\ l.usage.cache_read_input_tokens = 50}
    \cup {PlainLine}

\* hookData.cost: total_cost_usd and total_duration_ms, each optional.
HookCosts == {Undefined, 9}

HookDurations == {Undefined, 0, 120000}

\* No ContextInfo (null).
NullContextInfo ==
    [isNull |-> TRUE, rev |-> "first", totalTokens |-> 0, maxTokens |-> 0,
     percentage |-> 0, usablePercentage |-> 0, contextLeftPercentage |-> 0,
     usableTokens |-> 0]

NoCall ==
    [hookCost |-> Undefined, hookDurationMs |-> Undefined, throws |-> FALSE,
     fails |-> FALSE]

\* parseJsonlFile (utils/claude.ts): the lines that parse as JSON, in file
\* order; a line that does not parse is dropped.  The entries without
\* message.usage are dropped by the caller (session.ts:98).
parseJsonlFile(lines) == SelectSeq(lines, LAMBDA l : l.kind # "garbage")

\* The session of the call, and another one.
SessionId == "abc123"

OtherSessionId == "other-session"

\* The files the directory <root>/<sessionId>/subagents/ can hold: agent
\* transcripts of the session, and one file each of another session, with
\* another suffix, and with another prefix; each of these three holds an
\* assistant turn with usage.
AgentFiles ==
    {[prefix |-> "agent-", suffix |-> ".jsonl", sessionId |-> SessionId,
      lines |-> <<l>>] : l \in AgentEntryLines}
    \cup {[prefix |-> x.prefix, suffix |-> x.suffix, sessionId |-> x.sessionId,
           lines |-> <<[kind |-> "usage", timestamp |-> 60000, usage |-> FullUsage,
                        costUSD |-> Undefined, isSidechain |-> FALSE]>>] :
             x \in {[prefix |-> "agent-", suffix |-> ".jsonl",
                     sessionId |-> OtherSessionId],
                    [prefix |-> "agent-", suffix |-> ".txt", sessionId |-> SessionId],
                    [prefix |-> "other", suffix |-> ".jsonl", sessionId |-> SessionId]}}

\* A lookup that trusts the name of a file.
findAgentTranscriptsByName(sessionId, files) ==
    SelectSeq(files, LAMBDA f : f.prefix = "agent-" /\ f.suffix = ".jsonl")

\* findAgentTranscripts (utils/claude.ts): the agent-*.jsonl files of
\* <root>/<sessionId>/subagents/ whose first line carries the requested
\* session id; none when the directory does not exist (it exists once a
\* file has been written into it).
findAgentTranscripts(sessionId, files) ==
    IF files = << >> THEN << >>
    ELSE SelectSeq(files, LAMBDA f : /\ f.prefix = "agent-"
                                     /\ f.suffix = ".jsonl"
                                     /\ f.sessionId = sessionId)

\* PricingService.calculateCostForEntry (./pricing): the cost of the tokens
\* of an entry at the rates of its model.
calculateCostForEntry(raw) ==
    (3 * OrZero(raw.usage.input_tokens) + 15 * OrZero(raw.usage.output_tokens)
     + 4 * OrZero(raw.usage.cache_creation_input_tokens)
     + OrZero(raw.usage.cache_read_input_tokens)) \div 100

convertToSessionEntry(entry) ==
    [timestamp |-> entry.timestamp,
     usage |-> [input_tokens |-> OrZero(entry.usage.input_tokens),
                output_tokens |-> OrZero(entry.usage.output_tokens),
                cache_creation_input_tokens |-> entry.usage.cache_creation_input_tokens,
                cache_read_input_tokens |-> entry.usage.cache_read_input_tokens],
     costUSD |-> entry.costUSD]

\* parsedEntries.push(...agentEntries) for each agent transcript.
RECURSIVE AgentEntries(_)
AgentEntries(files) ==
    IF files = << >> THEN << >>
    ELSE parseJsonlFile(Head(files).lines) \o AgentEntries(Tail(files))

\* A loop that sums the reported costs and leaves the other entries as they
\* are.
RECURSIVE UsageEntriesReportedOnly(_)
UsageEntriesReportedOnly(parsed) ==
    IF parsed = << >> THEN << >>
    ELSE IF Head(parsed).kind = "usage"
         THEN <<convertToSessionEntry(Head(parsed))>>
              \o UsageEntriesReportedOnly(Tail(parsed))
         ELSE UsageEntriesReportedOnly(Tail(parsed))

\* The loop of getSessionUsage (session.ts:97-111) over the parsed entries:
\* the session entry of each one that has message.usage, its costUSD
\* defined.
RECURSIVE UsageEntries(_)
UsageEntries(parsed) ==
    IF parsed = << >> THEN << >>
    ELSE LET entry == Head(parsed)
             sessionEntry == convertToSessionEntry(entry)
         IN  IF entry.kind = "usage"
             THEN <<IF sessionEntry.costUSD # Undefined THEN sessionEntry
                    ELSE [sessionEntry EXCEPT !.costUSD = calculateCostForEntry(entry)]>>
                  \o UsageEntries(Tail(parsed))
             ELSE UsageEntries(Tail(parsed))

RECURSIVE TotalCost(_)
TotalCost(entries) ==
    IF entries = << >> THEN 0 ELSE Head(entries).costUSD + TotalCost(Tail(entries))

NullUsage == [isNull |-> TRUE, totalCost |-> 0, entries |-> << >>]

\* getSessionUsage (session.ts:69-121); throws says that a read or the
\* pricing service throws inside the try block.
getSessionUsage(exists, throws, lines, files) ==
    IF ~exists \/ throws THEN NullUsage
    ELSE LET parsedEntries == parseJsonlFile(lines)
                              \o AgentEntries(findAgentTranscripts(SessionId, files))
             entries == UsageEntries(parsedEntries)
         IN  IF parsedEntries = << >>
             THEN [isNull |-> FALSE, totalCost |-> 0, entries |-> << >>]
             ELSE [isNull |-> FALSE, totalCost |-> TotalCost(entries),
                   entries |-> entries]

ZeroBreakdown == [input |-> 0, output |-> 0, cacheCreation |-> 0, cacheRead |-> 0]

NullBreakdown ==
    [input |-> Null, output |-> Null, cacheCreation |-> Null, cacheRead |-> Null]

\* A token fold that leaves the cache creation tokens out.
RECURSIVE calculateTokenBreakdownWithoutCacheCreation(_)
calculateTokenBreakdownWithoutCacheCreation(entries) ==
    IF entries = << >> THEN ZeroBreakdown
    ELSE LET breakdown == calculateTokenBreakdownWithoutCacheCreation(
                              SubSeq(entries, 1, Len(entries) - 1))
             entry == entries[Len(entries)]
         IN  [input |-> breakdown.input + OrZero(entry.usage.input_tokens),
              output |-> breakdown.output + OrZero(entry.usage.output_tokens),
              cacheCreation |-> 0,
              cacheRead |-> breakdown.cacheRead
                            + OrZero(entry.usage.cache_read_input_tokens)]

\* entries.reduce(...) (session.ts:123-137)
RECURSIVE calculateTokenBreakdown(_)
calculateTokenBreakdown(entries) ==
    IF entries = << >> THEN ZeroBreakdown
    ELSE LET breakdown == calculateTokenBreakdown(SubSeq(entries, 1, Len(entries) - 1))
             entry == entries[Len(entries)]
         IN  [input |-> breakdown.input + OrZero(entry.usage.input_tokens),
              output |-> breakdown.output + OrZero(entry.usage.output_tokens),
              cacheCreation |-> breakdown.cacheCreation
                                + OrZero(entry.usage.cache_creation_input_tokens),
              cacheRead |-> breakdown.cacheRead
                            + OrZero(entry.usage.cache_read_input_tokens)]

\* A number that JavaScript computes as a quotient is kept as the pair
\* num/den; null is NullRate.
NullRate == [num |-> 0, den |-> 0]

Rate(num, den) == [num |-> num, den |-> den]

\* A burn rate that smooths its first sample against a previous rate of 0.
calculateBurnRateSmoothedFromZero(cost, entries, hookDurationMs) ==
    IF cost = Null \/ cost = 0 THEN NullRate
    ELSE IF hookDurationMs # Undefined /\ hookDurationMs > 0
    THEN Rate(3 * cost * 3600000, 10 * hookDurationMs)
    ELSE IF Len(entries) < 2 THEN NullRate
    ELSE LET times == {entries[k].timestamp : k \in 1..Len(entries)}
             last == CHOOSE t \in times : \A u \in times : u <= t
             first == CHOOSE t \in times : \A u \in times : t <= u
             durationMs == last - first
         IN  IF durationMs < 60000 THEN NullRate
             ELSE Rate(3 * cost * 3600000, 10 * durationMs)

\* A burn rate without the guard on the cost.
calculateBurnRateUnguarded(cost, entries, hookDurationMs) ==
    IF hookDurationMs # Undefined /\ hookDurationMs > 0
    THEN Rate(cost * 3600000, hookDurationMs)
    ELSE IF Len(entries) < 2 THEN NullRate
    ELSE LET times == {entries[k].timestamp : k \in 1..Len(entries)}
             last == CHOOSE t \in times : \A u \in times : u <= t
             first == CHOOSE t \in times : \A u \in times : t <= u
             durationMs == last - first
         IN  IF durationMs < 60000 THEN NullRate
             ELSE Rate(cost * 3600000, durationMs)

\* A burn rate that takes the timestamps first and the reported duration
\* when they give nothing.
calculateBurnRateTimestampsFirst(cost, entries, hookDurationMs) ==
    LET times == {entries[k].timestamp : k \in 1..Len(entries)}
        last == CHOOSE t \in times : \A u \in times : u <= t
        first == CHOOSE t \in times : \A u \in times : t <= u
    IN  IF cost = Null \/ cost = 0 THEN NullRate
        ELSE IF Len(entries) >= 2 /\ last - first >= 60000
        THEN Rate(cost * 3600000, last - first)
        ELSE IF hookDurationMs # Undefined /\ hookDurationMs > 0
        THEN Rate(cost * 3600000, hookDurationMs)
        ELSE NullRate

\* calculateBurnRate (session.ts:139-158): cost / (durationMs / 3600000)
calculateBurnRate(cost, entries, hookDurationMs) ==
    IF cost = Null \/ cost = 0 THEN NullRate
    ELSE IF hookDurationMs # Undefined /\ hookDurationMs > 0
    THEN Rate(cost * 3600000, hookDurationMs)
    ELSE IF Len(entries) < 2 THEN NullRate
    ELSE LET times == {entries[k].timestamp : k \in 1..Len(entries)}
             last == CHOOSE t \in times : \A u \in times : u <= t
             first == CHOOSE t \in times : \A u \in times : t <= u
             durationMs == last - first
         IN  IF durationMs < 60000 THEN NullRate
             ELSE Rate(cost * 3600000, durationMs)

\* A cache hit rate over all the tokens of the breakdown.
calculateCacheHitRateOfAllTokens(breakdown) ==
    LET total == breakdown.input + breakdown.output + breakdown.cacheCreation
                 + breakdown.cacheRead
    IN  IF total = 0 THEN NullRate ELSE Rate(breakdown.cacheRead * 100, total)

\* calculateCacheHitRate (session.ts:160-164): (cacheRead / total) * 100
calculateCacheHitRate(breakdown) ==
    LET total == breakdown.input + breakdown.cacheCreation + breakdown.cacheRead
    IN  IF total = 0 THEN NullRate ELSE Rate(breakdown.cacheRead * 100, total)

NullSessionInfo ==
    [cost |-> Null, calculatedCost |-> Null, officialCost |-> Null, tokens |-> Null,
     tokenBreakdown |-> NullBreakdown, cacheHitRate |-> NullRate,
     burnRate |-> NullRate, isOutputEstimated |-> FALSE]

\* The SessionInfo of a session usage that has entries (session.ts:185-212).
SessionInfoOf(sessionUsage, hookCost, hookDurationMs) ==
    LET tokenBreakdown == calculateTokenBreakdown(sessionUsage.entries)
        totalTokens == tokenBreakdown.input + tokenBreakdown.output
                       + tokenBreakdown.cacheCreation + tokenBreakdown.cacheRead
        calculatedCost == sessionUsage.totalCost
        hookDataCost == Coalesce(hookCost, Null)
        cost == Coalesce(calculatedCost, hookDataCost)
    IN  [cost |-> cost, calculatedCost |-> calculatedCost,
         officialCost |-> hookDataCost, tokens |-> totalTokens,
         tokenBreakdown |-> tokenBreakdown,
         cacheHitRate |-> calculateCacheHitRate(tokenBreakdown),
         burnRate |-> calculateBurnRate(cost, sessionUsage.entries, hookDurationMs),
         isOutputEstimated |-> FALSE]

\* A getSessionInfo that, without entries, reports the cost of the hook data.
getSessionInfoWithFallback(exists, throws, lines, files, hookCost, hookDurationMs) ==
    LET sessionUsage == getSessionUsage(exists, throws, lines, files)
    IN  IF sessionUsage.isNull \/ sessionUsage.entries = << >>
        THEN [NullSessionInfo EXCEPT !.cost = Coalesce(hookCost, Null),
                                     !.officialCost = Coalesce(hookCost, Null)]
        ELSE SessionInfoOf(sessionUsage, hookCost, hookDurationMs)

\* A getSessionInfo without the early return for a usage without entries.
getSessionInfoZeroFilled(exists, throws, lines, files, hookCost, hookDurationMs) ==
    LET sessionUsage == getSessionUsage(exists, throws, lines, files)
    IN  IF sessionUsage.isNull THEN NullSessionInfo
        ELSE SessionInfoOf(sessionUsage, hookCost, hookDurationMs)

\* getSessionInfo (session.ts:166-213)
getSessionInfo(exists, throws, lines, files, hookCost, hookDurationMs) ==
    LET sessionUsage == getSessionUsage(exists, throws, lines, files)
    IN  IF sessionUsage.isNull \/ sessionUsage.entries = << >> THEN NullSessionInfo
        ELSE SessionInfoOf(sessionUsage, hookCost, hookDurationMs)

\* ------------------------------------------------------------------------
\* Part 5: the first prompt of a transcript (session.ts:358-436)
\* ------------------------------------------------------------------------
\* message.content of the user entries of the model, as strings.
SystemContent == "<system-reminder>hi</system-reminder>"
ShortContent == " a "
FixContent == "  fix the bug\nplease"
TestsContent == "<b>x</b>add tests"

\* The lines the readline interface emits: one that is not JSON, an assistant
\* entry, and user entries.
ReaderLines ==
    {[json |-> FALSE, type |-> "", role |-> "", content |-> ""],
     [json |-> TRUE, type |-> "assistant", role |-> "assistant", content |-> TestsContent]}
    \cup [json : {TRUE}, type : {"user"}, role : {"user"},
          content : {SystemContent, ShortContent, FixContent, TestsContent}]

\* isSystemContent (session.ts:428-434): the trimmed text starts with a
\* system tag or with '[Request interrupted'.
isSystemContent(text) == text = SystemContent

\* cleanPromptText (session.ts:419-426): interruption notes and tags removed,
\* the first line, trimmed.
cleanPromptText(text) ==
    CASE text = SystemContent -> ""
      [] text = ShortContent -> "a"
      [] text = FixContent -> "fix the bug"
      [] text = TestsContent -> "add tests"
      [] OTHER -> text

\* String.prototype.length on the cleaned texts.
StringLength(text) ==
    CASE text = "" -> 0
      [] text = "a" -> 1
      [] text = "fix the bug" -> 11
      [] text = "add tests" -> 9
      [] OTHER -> 2

\* The value of the promise: null, or a text.
NullText == [isNull |-> TRUE, text |-> ""]

Text(s) == [isNull |-> FALSE, text |-> s]

\* extractUserText (session.ts:402-417) on a string content.
extractUserText(content) ==
    IF isSystemContent(content) THEN NullText ELSE Text(cleanPromptText(content))

\* The executor has run (session.ts:359-364): nothing read, nothing resolved.
\* resolves counts the calls of resolve; seen holds the lines emitted before
\* the first 'close' or 'error', emitted counts every 'line' event.
NewReader ==
    [linesRead |-> 0, resolved |-> FALSE, resolves |-> 0, value |-> NullText,
     closed |-> FALSE, errors |-> {}, seen |-> << >>, ended |-> FALSE, emitted |-> 0]

\* A done that does not look at resolved.
doneUnguarded(r, value) ==
    [r EXCEPT !.resolved = TRUE, !.resolves = @ + 1, !.value = value,
              !.closed = TRUE, !.ended = TRUE]

\* done (session.ts:366-372): the first call sets resolved, closes the
\* interface, which emits 'close' into a done that returns at once, destroys
\* the stream and resolves; every later call returns at once.
done(r, value) ==
    IF r.resolved THEN r
    ELSE [r EXCEPT !.resolved = TRUE, !.resolves = @ + 1, !.value = value,
                   !.closed = TRUE, !.ended = TRUE]

\* rl.on("line") (session.ts:374-395).  An interface that was closed may still
\* emit the lines it had buffered.
OnLine ==
    /\ reader.emitted < MaxReaderLines
    /\ \E line \in ReaderLines :
          LET r == [reader EXCEPT !.emitted = @ + 1,
                                  !.seen = IF reader.ended THEN @ ELSE Append(@, line)]
              counted == [r EXCEPT !.linesRead = @ + 1]
              text == extractUserText(line.content)
          IN  reader' =
                  IF reader.resolved THEN r
                  ELSE IF counted.linesRead > maxLines THEN done(counted, NullText)
                  ELSE IF /\ line.json
                          /\ line.type = "user"
                          /\ line.role = "user"
                          /\ ~text.isNull
                          /\ text.text # ""
                          /\ StringLength(text.text) > 1
                  THEN done(counted, text)
                  ELSE counted
    /\ UNCHANGED <<omcVars, sessionVars, cacheVars, contextInfo>>

\* rl.on("close") (session.ts:397), for a close that done did not cause.
OnClose ==
    /\ ~reader.closed
    /\ reader' = done([reader EXCEPT !.closed = TRUE, !.ended = TRUE], NullText)
    /\ UNCHANGED <<omcVars, sessionVars, cacheVars, contextInfo>>

\* rl.on("error") and stream.on("error") (session.ts:398-399).
OnError ==
    /\ \E source \in {"rl", "stream"} \ reader.errors :
          reader' = done([reader EXCEPT !.errors = @ \cup {source}, !.ended = TRUE],
                         NullText)
    /\ UNCHANGED <<omcVars, sessionVars, cacheVars, contextInfo>>

NextReader ==
    \/ OnLine
    \/ OnClose
    \/ OnError

InitSession ==
    /\ transcriptExists = FALSE
    /\ transcript = << >>
    /\ agentTranscripts = << >>
    /\ call = NoCall
    /\ sessionInfo = NullSessionInfo
    /\ spc = "writing"
    /\ contextInfo = NullContextInfo
    /\ reader = NewReader

\* The host creates the transcript of the session.
CreateTranscript ==
    /\ spc = "writing"
    /\ ~transcriptExists
    /\ transcriptExists' = TRUE
    /\ UNCHANGED <<transcript, agentTranscripts, call, sessionInfo, spc>>
    /\ UNCHANGED exceptSession

\* The host appends a line to the transcript.
AppendLine ==
    /\ spc = "writing"
    /\ transcriptExists
    /\ Len(transcript) < MaxEntryLines
    /\ \E l \in EntryLines : transcript' = Append(transcript, l)
    /\ UNCHANGED <<transcriptExists, agentTranscripts, call, sessionInfo, spc>>
    /\ UNCHANGED exceptSession

\* A file is written under subagents/; its first line carries a session
\* id, which may be the one of another session.
WriteAgentTranscript ==
    /\ spc = "writing"
    /\ transcriptExists
    /\ Len(agentTranscripts) < MaxAgentFiles
    /\ \E f \in AgentFiles : agentTranscripts' = Append(agentTranscripts, f)
    /\ UNCHANGED <<transcriptExists, transcript, call, sessionInfo, spc>>
    /\ UNCHANGED exceptSession

\* One invocation: getSessionInfo(sessionId, hookData).
GetSessionInfo ==
    /\ spc = "writing"
    /\ \E hookCost \in HookCosts, hookDurationMs \in HookDurations, throws \in BOOLEAN :
          /\ call' = [hookCost |-> hookCost, hookDurationMs |-> hookDurationMs,
                      throws |-> throws, fails |-> FALSE]
          /\ sessionInfo' = getSessionInfo(transcriptExists, throws, transcript,
                                           agentTranscripts, hookCost, hookDurationMs)
    /\ spc' = "done"
    /\ UNCHANGED <<transcriptExists, transcript, agentTranscripts>>
    /\ UNCHANGED exceptSession

NextSession ==
    \/ CreateTranscript
    \/ AppendLine
    \/ WriteAgentTranscript
    \/ GetSessionInfo

\* A wrapper without the catch: the result of getSessionInfo in any case.
getUsageInfoWithoutCatch(exists, throws, fails, lines, files, hookCost, hookDurationMs) ==
    [session |-> SessionInfoOf(getSessionUsage(exists, FALSE, lines, files),
                               hookCost, hookDurationMs)]

\* UsageProvider.getUsageInfo (session.ts:219-249): fails says that
\* getSessionInfo throws after getSessionUsage has returned.
getUsageInfo(exists, throws, fails, lines, files, hookCost, hookDurationMs) ==
    IF fails THEN [session |-> NullSessionInfo]
    ELSE [session |-> getSessionInfo(exists, throws, lines, files, hookCost,
                                     hookDurationMs)]

\* One invocation: getUsageInfo(sessionId, hookData).
GetUsageInfo ==
    /\ spc = "writing"
    /\ \E hookCost \in HookCosts, hookDurationMs \in HookDurations,
          throws \in BOOLEAN, fails \in BOOLEAN :
          /\ call' = [hookCost |-> hookCost, hookDurationMs |-> hookDurationMs,
                      throws |-> throws, fails |-> fails]
          /\ sessionInfo' = getUsageInfo(transcriptExists, throws, fails, transcript,
                                         agentTranscripts, hookCost,
                                         hookDurationMs).session
    /\ spc' = "done"
    /\ UNCHANGED <<transcriptExists, transcript, agentTranscripts>>
    /\ UNCHANGED exceptSession

\* parseTranscriptForSkillAndAgents throws outside the try block of a line
\* (statSync or the read of the transcript fails, or the code after the
\* loop throws): the catch returns the defaults (omc.ts:379-381).
Fail ==
    /\ pc = "replay"
    /\ pc' = "failed"
    /\ lastSkill' = NullSkill
    /\ agents' = << >>
    /\ enrichment' = << >>
    /\ agentMap' = << >>
    /\ backgroundAgentMap' = [b \in BgIds |-> NoId]
    /\ UNCHANGED <<rev, clock, nlines, logTime, cause>>
    /\ UNCHANGED exceptOmc

\* One render of the status line on an empty transcript of the tracker:
\* the tracker returns or fails, then the usage provider is called.
NextProviders ==
    \/ Fail
    \/ Finish
    \/ pc # "replay" /\ CreateTranscript
    \/ pc # "replay" /\ AppendLine
    \/ pc # "replay" /\ WriteAgentTranscript
    \/ pc # "replay" /\ GetUsageInfo

\* ------------------------------------------------------------------------
\* Part 4: ContextProvider.calculateContextTokensFromTranscript
\* ------------------------------------------------------------------------
\* rateLimits.ts holds two revisions of the provider: the first adds input,
\* cache read and cache creation tokens, the second adds output tokens too.
ContextRevisions == {"first", "second"}

\* The limit when no modelId is given.
ContextLimit(r) == IF r = "first" THEN 182000 ELSE 200000

\* Math.round(n / d) of two non-negative integers.
Round(n, d) == (2 * n + d) \div (2 * d)

Min(a, b) == IF a < b THEN a ELSE b

\* calculatePercentages (rateLimits.ts:290-312) and the ContextInfo.
ContextInfoOf(r, totalTokens, contextLimit) ==
    LET usableLimit == Round(3 * contextLimit, 4)
        usablePercentage == Min(100, Round(100 * totalTokens, usableLimit))
    IN  [isNull |-> FALSE, rev |-> r, totalTokens |-> totalTokens,
         maxTokens |-> contextLimit,
         percentage |-> Min(100, Round(100 * totalTokens, contextLimit)),
         usablePercentage |-> usablePercentage,
         contextLeftPercentage |-> 100 - usablePercentage,
         usableTokens |-> usableLimit]

\* usage.input_tokens + ... of the entry found (rateLimits.ts:392-397,
\* 596-602).
ContextTokens(r, usage) ==
    OrZero(usage.input_tokens)
    + (IF r = "second" THEN OrZero(usage.output_tokens) ELSE 0)
    + OrZero(usage.cache_read_input_tokens)
    + OrZero(usage.cache_creation_input_tokens)

\* The loop from the last entry to the first (rateLimits.ts:377-389): the
\* index of the entry it stops at, 0 when it stops at none.
RECURSIVE MostRecentEntry(_, _)
MostRecentEntry(parsedEntries, i) ==
    IF i = 0 THEN 0
    ELSE IF OrZero(parsedEntries[i].usage.input_tokens) = 0
    THEN MostRecentEntry(parsedEntries, i - 1)
    ELSE IF parsedEntries[i].isSidechain THEN MostRecentEntry(parsedEntries, i - 1)
    ELSE i

\* A search that takes the last entry with input tokens, whoever wrote it.
calculateContextTokensFromLastEntry(r, exists, lines) ==
    LET parsedEntries == parseJsonlFile(lines)
        found == {i \in 1..Len(parsedEntries) :
                     OrZero(parsedEntries[i].usage.input_tokens) # 0}
    IN  IF ~exists \/ found = {} THEN [NullContextInfo EXCEPT !.rev = r]
        ELSE ContextInfoOf(r, ContextTokens(r, parsedEntries[
                 CHOOSE i \in found : \A j \in found : j <= i].usage),
                 ContextLimit(r))

\* calculateContextTokensFromTranscript (rateLimits.ts:345-420, 553-625) of
\* revision r, without a modelId.
calculateContextTokensFromTranscript(r, exists, lines) ==
    IF ~exists \/ lines = << >> THEN [NullContextInfo EXCEPT !.rev = r]
    ELSE LET parsedEntries == parseJsonlFile(lines)
             i == MostRecentEntry(parsedEntries, Len(parsedEntries))
         IN  IF parsedEntries = << >> \/ i = 0
             THEN [NullContextInfo EXCEPT !.rev = r]
             ELSE ContextInfoOf(r, ContextTokens(r, parsedEntries[i].usage),
                                ContextLimit(r))

\* The context segment of the status line, after the usage segment.
CalculateContext ==
    /\ spc = "done"
    /\ \E r \in ContextRevisions :
          contextInfo' = calculateContextTokensFromTranscript(r, transcriptExists,
                                                              transcript)
    /\ spc' = "rendered"
    /\ UNCHANGED <<transcriptExists, transcript, agentTranscripts, call, sessionInfo>>
    /\ UNCHANGED <<omcVars, cacheVars, reader>>

\* The usage segment and the context segment on the primary transcript.
NextContext ==
    \/ CreateTranscript
    \/ AppendLine
    \/ GetSessionInfo
    \/ CalculateContext

\* ------------------------------------------------------------------------
\* Part 3: RateLimitsProvider.fetchFromOAuthAPI and its cache file
\* ------------------------------------------------------------------------
\* const CACHE_TTL_MS = 30_000 (rateLimits.ts:11)
CACHE_TTL_MS == 30000

\* The clock advances at most this many times, by 1 ms or by the TTL.
MaxCacheTicks == 2

TickSteps == {1, CACHE_TTL_MS}

\* Two invocations of the status line, each in its own process.
Invocations == {"a", "b"}

NoInvocation == "none"

\* five_hour.utilization of the responses of the usage endpoint.
Utilizations == {9, 10}

\* A RateLimitsInfo, or what else the data of a cache entry can hold.
Info(u) == [kind |-> "object", session |-> u]

NullInfo == [kind |-> "null", session |-> Undefined]

\* entry.data of a JSON text without a data member.
MissingData == [kind |-> "undefined", session |-> Undefined]

\* entry.data of a JSON text whose data is a string.
StringData == [kind |-> "string", session |-> Undefined]

\* if (cached): a RateLimitsInfo and a non-empty string are truthy.
Truthy(data) == data.kind \in {"object", "string"}

\* parseUsageResponse (rateLimits.ts:130-159): session.usedPercentage is
\* five_hour.utilization.
parseUsageResponse(utilization) == Info(utilization)

NoEntry == [data |-> NullInfo, timestamp |-> Undefined]

\* The length of JSON.stringify(entry), in chunks: a utilization of two
\* digits makes the text longer than one of one digit.
Size(entry) ==
    IF entry.data.kind = "object" /\ entry.data.session >= 10 THEN 2 ELSE 1

\* JSON.stringify(entry): the text of an entry, as chunks that each say
\* which part of which text they are.
Stringify(entry) == [k \in 1..Size(entry) |-> [entry |-> entry, part |-> k]]

\* JSON.parse(text) succeeds on a whole text of one entry only: not on an
\* empty file, nor on a text followed by the rest of a longer one.
IsJson(text) == Len(text) > 0 /\ text = Stringify(text[1].entry)

JsonParse(text) == text[1].entry

NoFile == [exists |-> FALSE, text |-> << >>]

FileOf(text) == [exists |-> TRUE, text |-> text]

\* The cache file as an invocation can find it: absent; written 30 s or
\* less ago by an earlier invocation; empty; or a JSON text of another
\* shape (no timestamp, data that is a string, no data).
InitialFiles ==
    {NoFile, FileOf(<< >>)}
    \cup {FileOf(Stringify([data |-> d, timestamp |-> t])) :
            d \in {Info(9)}, t \in {0, Undefined}}
    \cup {FileOf(Stringify([data |-> d, timestamp |-> 0])) :
            d \in {StringData, MissingData}}

\* A reader that keeps an entry only while it is younger than the TTL.
readCacheYoungerThanTTL(file, t) ==
    IF ~file.exists \/ ~IsJson(file.text) THEN NullInfo
    ELSE LET entry == JsonParse(file.text)
         IN  IF entry.timestamp # Undefined /\ t - entry.timestamp >= CACHE_TTL_MS
             THEN NullInfo
             ELSE entry.data

\* readCache (rateLimits.ts:205-218) on the file as it was read, at time t.
\* Date.now() - undefined is NaN, and NaN > CACHE_TTL_MS is false.
readCache(file, t) ==
    IF ~file.exists THEN NullInfo
    ELSE IF ~IsJson(file.text) THEN NullInfo
    ELSE LET entry == JsonParse(file.text)
         IN  IF entry.timestamp # Undefined /\ t - entry.timestamp > CACHE_TTL_MS
             THEN NullInfo
             ELSE entry.data

\* writeFile of a text into a file opened for writing at offset 0: what
\* the file holds beyond the text stays.
WriteAt0(old, text) == text \o SubSeq(old, Len(text) + 1, Len(old))

StartInvocation ==
    [pc |-> "readFile", read |-> NoFile, cached |-> NullInfo, info |-> NullInfo,
     entry |-> NoEntry, result |-> NullInfo, source |-> "none", requests |-> 0]

Ticks == (dateNow % CACHE_TTL_MS) + (dateNow \div CACHE_TTL_MS)

InitRateLimits ==
    /\ dateNow = 0
    /\ cacheFile \in InitialFiles
    /\ cacheDir \in BOOLEAN
    /\ cacheFile.exists => cacheDir
    /\ inv = [p \in Invocations |-> StartInvocation]
    /\ lastWriter = NoInvocation

\* No invocation of the rate-limit provider runs.
IdleRateLimits ==
    /\ dateNow = 0
    /\ cacheFile = NoFile
    /\ cacheDir = FALSE
    /\ inv = [p \in Invocations |-> StartInvocation]
    /\ lastWriter = NoInvocation

\* Time passes.
Tick ==
    /\ Ticks < MaxCacheTicks
    /\ \E d \in TickSteps : dateNow' = dateNow + d
    /\ UNCHANGED <<cacheDir, cacheFile, inv, lastWriter>>
    /\ UNCHANGED exceptCache

\* readCache: existsSync and readFile (rateLimits.ts:207-209).
ReadFile(p) ==
    /\ inv[p].pc = "readFile"
    /\ inv' = [inv EXCEPT ![p].pc = "check", ![p].read = cacheFile]
    /\ UNCHANGED <<dateNow, cacheDir, cacheFile, lastWriter>>
    /\ UNCHANGED exceptCache

\* readCache: JSON.parse and the TTL (rateLimits.ts:210-217), then
\* if (cached) return cached (rateLimits.ts:89-90).
CheckCache(p) ==
    /\ inv[p].pc = "check"
    /\ LET cached == readCache(inv[p].read, dateNow)
       IN  inv' = IF Truthy(cached)
                  THEN [inv EXCEPT ![p].pc = "done", ![p].cached = cached,
                                   ![p].result = cached, ![p].source = "cache"]
                  ELSE [inv EXCEPT ![p].pc = "token", ![p].cached = cached]
    /\ UNCHANGED <<dateNow, cacheDir, cacheFile, lastWriter>>
    /\ UNCHANGED exceptCache

\* loadAccessToken (rateLimits.ts:92-96): without a token the result is null.
LoadAccessToken(p) ==
    /\ inv[p].pc = "token"
    /\ \E token \in BOOLEAN :
          inv' = IF token THEN [inv EXCEPT ![p].pc = "fetch"]
                 ELSE [inv EXCEPT ![p].pc = "done", ![p].result = NullInfo]
    /\ UNCHANGED <<dateNow, cacheDir, cacheFile, lastWriter>>
    /\ UNCHANGED exceptCache

\* getRateLimitsInfo, the hook branch (rateLimits.ts:64-83): rate limits that
\* the host passes in hookData are returned as they are; neither the cache nor
\* the network is touched.
HookRateLimits(p) ==
    /\ inv[p].pc = "readFile"
    /\ \E u \in Utilizations :
          inv' = [inv EXCEPT ![p].pc = "done", ![p].result = Info(u),
                             ![p].source = "hook"]
    /\ UNCHANGED <<dateNow, cacheDir, cacheFile, lastWriter>>
    /\ UNCHANGED exceptCache

\* The ways the request fails: a status that is not ok, a thrown error, the
\* 10-second timeout.
FetchFailures == {"status", "throws", "timeout"}

\* A request that is repeated once after a failure.
FetchWithRetry(p) ==
    /\ inv[p].pc = "fetch"
    /\ \/ \E failure \in FetchFailures :
             inv' = [inv EXCEPT ![p].pc = IF inv[p].requests = 0 THEN "fetch" ELSE "done",
                                ![p].result = NullInfo, ![p].source = "api",
                                ![p].requests = @ + 1]
       \/ \E u \in Utilizations :
             inv' = [inv EXCEPT ![p].pc = "mkdir", ![p].source = "api",
                                ![p].requests = @ + 1,
                                ![p].info = parseUsageResponse(u)]
    /\ UNCHANGED <<dateNow, cacheDir, cacheFile, lastWriter>>
    /\ UNCHANGED exceptCache

\* fetchFromOAuthAPI, the request (rateLimits.ts:98-126): one fetch with a
\* 10-second abort signal inside one try block. A response that is not ok returns
\* null; a rejection of fetch (network error, abort on timeout) or of
\* response.json() lands in the catch, which returns null. Only an ok, parsed
\* response goes on to writeCache.
Fetch(p) ==
    /\ inv[p].pc = "fetch"
    /\ \/ \E failure \in FetchFailures :
             inv' = [inv EXCEPT ![p].pc = "done", ![p].result = NullInfo,
                                ![p].source = "api", ![p].requests = @ + 1]
       \/ \E u \in Utilizations :
             inv' = [inv EXCEPT ![p].pc = "mkdir", ![p].source = "api",
                                ![p].requests = @ + 1,
                                ![p].info = parseUsageResponse(u)]
    /\ UNCHANGED <<dateNow, cacheDir, cacheFile, lastWriter>>
    /\ UNCHANGED exceptCache

\* writeCache: mkdir of the cache directory if it is missing, and the
\* entry { data, timestamp: Date.now() } (rateLimits.ts:222-226).
MakeEntry(p) ==
    /\ inv[p].pc = "mkdir"
    /\ cacheDir' = TRUE
    /\ inv' = [inv EXCEPT ![p].pc = "open",
                          ![p].entry = [data |-> inv[p].info, timestamp |-> dateNow]]
    /\ UNCHANGED <<dateNow, cacheFile, lastWriter>>
    /\ UNCHANGED exceptCache

\* writeFile (rateLimits.ts:227-231) opens the file with flag 'w': the
\* file is created, or truncated.
OpenFile(p) ==
    /\ inv[p].pc = "open"
    /\ cacheFile' = FileOf(<< >>)
    /\ inv' = [inv EXCEPT ![p].pc = "write"]
    /\ UNCHANGED <<dateNow, cacheDir, lastWriter>>
    /\ UNCHANGED exceptCache

\* writeFile then writes the text from offset 0 and closes; writeCache
\* returns and fetchFromOAuthAPI returns info (rateLimits.ts:120-121).  No
\* lock is held between the open and the write.
WriteFile(p) ==
    /\ inv[p].pc = "write"
    /\ cacheFile' = FileOf(WriteAt0(cacheFile.text, Stringify(inv[p].entry)))
    /\ lastWriter' = p
    /\ inv' = [inv EXCEPT ![p].pc = "done", ![p].result = inv[p].info]
    /\ UNCHANGED <<dateNow, cacheDir>>
    /\ UNCHANGED exceptCache

NextRateLimits ==
    \/ Tick
    \/ \E p \in Invocations :
          \/ HookRateLimits(p)
          \/ ReadFile(p)
          \/ CheckCache(p)
          \/ LoadAccessToken(p)
          \/ Fetch(p)
          \/ MakeEntry(p)
          \/ OpenFile(p)
          \/ WriteFile(p)

\* ------------------------------------------------------------------------
\* Specifications
\* ------------------------------------------------------------------------
\* The agent tracker runs; the usage aggregator is not called.
Init == InitOmc /\ InitSession /\ IdleRateLimits

Next == NextOmc

Spec == Init /\ [][Next]_vars

\* The usage aggregator runs; the agent tracker is not called.
InitUsage ==
    /\ InitSession
    /\ rev = "omc.ts"
    /\ clock = MaxTicks * STALE_AGENT_THRESHOLD_MS
    /\ pc = "done"
    /\ nlines = 0
    /\ logTime = 0
    /\ agentMap = << >>
    /\ backgroundAgentMap = [b \in BgIds |-> NoId]
    /\ lastSkill = NullSkill
    /\ cause = [i \in Ids |-> ""]
    /\ agents = << >>
    /\ enrichment = << >>
    /\ IdleRateLimits

SpecSession == InitUsage /\ [][NextSession]_vars

\* The rate-limit provider runs; the tracker and the aggregator are not
\* called.
InitCache ==
    /\ InitRateLimits
    /\ InitSession
    /\ rev = "omc.ts"
    /\ clock = MaxTicks * STALE_AGENT_THRESHOLD_MS
    /\ pc = "done"
    /\ nlines = 0
    /\ logTime = 0
    /\ agentMap = << >>
    /\ backgroundAgentMap = [b \in BgIds |-> NoId]
    /\ lastSkill = NullSkill
    /\ cause = [i \in Ids |-> ""]
    /\ agents = << >>
    /\ enrichment = << >>

SpecCache == InitCache /\ [][NextRateLimits]_vars

SpecProviders == Init /\ [][NextProviders]_vars

SpecContext == InitUsage /\ [][NextContext]_vars

\* The reader of the first prompt runs on its own.
SpecReader == InitUsage /\ [][NextReader]_vars

TypeOK ==
    /\ rev \in Revisions
    /\ clock \in Times
    /\ pc \in {"replay", "done", "failed"}
    /\ nlines \in 0..MaxLines

\* ------------------------------------------------------------------------
\* Properties of the agent tracker
\* ------------------------------------------------------------------------
\* The loop state of the replay so far, and the lines the properties append
\* to the transcript replayed so far.
Cur == [map |-> agentMap, bg |-> backgroundAgentMap, skill |-> lastSkill]

LaunchLine(i, t) ==
    [timestamp |-> t, blocks |-> <<[kind |-> "launch", id |-> i]>>,
     throws |-> FALSE, msg |-> NoSignal, ent |-> NoSignal]

ResultLine(i, t, async, agentId, taskOut) ==
    [timestamp |-> t,
     blocks |-> <<[kind |-> "result", id |-> i, async |-> async,
                   agentId |-> agentId, taskOut |-> taskOut]>>,
     throws |-> FALSE, msg |-> NoSignal, ent |-> NoSignal]

NotifyLine(t, msg, ent) ==
    [timestamp |-> t, blocks |-> << >>, throws |-> FALSE, msg |-> msg, ent |-> ent]

RecordsOf(m, i) == {k \in 1..Len(m) : m[k].id = i}

TerminalStrings ==
    {"completed", "failed", "error", "cancelled", "COMPLETED", "Failed", "ERROR",
     "Cancelled"}

\* C1 (as claimed): after any prefix of the replay the registry holds more
\* records than the soft cap only if every record is running and started no
\* more than 30 minutes before the current time.
C1_RegistryWithinSoftCap ==
    (pc = "replay" /\ Len(agentMap) > MAX_AGENT_MAP_SIZE) =>
        \A k \in 1..Len(agentMap) :
            /\ agentMap[k].status = "running"
            /\ clock - agentMap[k].startTime <= STALE_AGENT_THRESHOLD_MS

C3_BackgroundCompletionByNotification ==
    pc = "replay" =>
        \A i \in Ids, x \in BgIds, t2 \in Stamps(logTime) :
            LET s2 == ProcessLine(rev, ProcessLine(rev, Cur, LaunchLine(i, t2), clock),
                                  ResultLine(i, t2, TRUE, x, NoSignal), clock)
            IN  /\ IsRunning(s2.map, i)
                /\ MapGet(s2.map, i).endTime = Undefined
                /\ \A t3 \in Stamps(StampAfter(logTime, t2)), inMessage \in BOOLEAN,
                      s \in {"completed", "Failed"} :
                       LET sig == [taskId |-> x, status |-> s]
                           l3 == IF inMessage THEN NotifyLine(t3, sig, NoSignal)
                                 ELSE NotifyLine(t3, NoSignal, sig)
                           m == ProcessLine(rev, s2, l3, clock).map
                       IN  /\ Cardinality(RecordsOf(m, i)) = 1
                           /\ MapGet(m, i).status = "completed"
                           /\ MapGet(m, i).endTime = LineTime(l3, clock)

\* A replay of three lines that ends with one record, handed off to a
\* background id and completed later by a task-notification.
C3_Witness ==
    /\ pc = "replay"
    /\ nlines = 3
    /\ Len(agentMap) = 1
    /\ agentMap[1].status = "completed"
    /\ cause[agentMap[1].id] = "notification"
    /\ \E x \in BgIds : backgroundAgentMap[x] = agentMap[1].id
    /\ agentMap[1].endTime > agentMap[1].startTime

\* C4: the pass after the replay turns every record that is running for
\* more than 30 minutes into completed with endTime = startTime + 30 min,
\* and leaves every other running record running without endTime.
C4_StaleAutoCompletion ==
    [][(pc = "replay" /\ pc' = "done") =>
        /\ Len(agentMap') = Len(agentMap)
        /\ \A k \in 1..Len(agentMap) :
              LET a == agentMap[k]
                  b == agentMap'[k]
              IN  /\ b.id = a.id
                  /\ b.startTime = a.startTime
                  /\ (a.status = "running"
                      /\ clock - a.startTime > STALE_AGENT_THRESHOLD_MS) =>
                         /\ b.status = "completed"
                         /\ b.endTime = a.startTime + STALE_AGENT_THRESHOLD_MS
                  /\ (a.status = "running"
                      /\ clock - a.startTime <= STALE_AGENT_THRESHOLD_MS) =>
                         /\ b.status = "running"
                         /\ b.endTime = Undefined]_vars

\* A replay of a single launch, finished more than 30 minutes after it.
C4_Witness ==
    /\ pc = "done"
    /\ nlines = 1
    /\ Len(agentMap) = 1
    /\ cause[agentMap[1].id] = "stale"
    /\ agentMap[1].status = "completed"
    /\ agentMap[1].endTime = agentMap[1].startTime + STALE_AGENT_THRESHOLD_MS
    /\ clock - agentMap[1].startTime > STALE_AGENT_THRESHOLD_MS

\* A background-completion line for task id x with status s, by carrier.
CompletionLine(carrier, t, x, s) ==
    LET sig == [taskId |-> x, status |-> s]
    IN  CASE carrier = "TaskOutput" -> ResultLine(OtherId, t, FALSE, NoBg, sig)
          [] carrier = "message.content" -> NotifyLine(t, sig, NoSignal)
          [] carrier = "content" -> NotifyLine(t, NoSignal, sig)

Carriers == {"TaskOutput", "message.content", "content"}

\* C5 (as claimed): a background-completion record of either carrier whose
\* task id was registered by a hand-off and whose record is running
\* completes the record with endTime = its timestamp when its status is
\* completed, failed, error or cancelled in any case, and leaves it running
\* otherwise.
C5_BackgroundCompletion ==
    pc = "replay" =>
        \A x \in BgIds :
            LET i == backgroundAgentMap[x]
            IN  (i # NoId /\ IsRunning(agentMap, i)) =>
                    \A c \in Carriers, s \in AllStatusStrings, t \in Stamps(logTime) :
                        LET l == CompletionLine(c, t, x, s)
                            m == ProcessLine(rev, Cur, l, clock).map
                        IN  IF s \in TerminalStrings
                            THEN /\ MapGet(m, i).status = "completed"
                                 /\ MapGet(m, i).endTime = LineTime(l, clock)
                            ELSE MapGet(m, i) = MapGet(agentMap, i)

\* ------------------------------------------------------------------------
\* Properties of the usage aggregator
\* ------------------------------------------------------------------------
\* The lines with a usage object of the primary transcript and of the agent
\* transcripts that belong to the session.
RECURSIVE LinesOfSession(_)
LinesOfSession(files) ==
    IF files = << >> THEN << >>
    ELSE (IF /\ Head(files).prefix = "agent-"
             /\ Head(files).suffix = ".jsonl"
             /\ Head(files).sessionId = SessionId
          THEN Head(files).lines ELSE << >>)
         \o LinesOfSession(Tail(files))

SessionUsageLines ==
    SelectSeq(transcript \o LinesOfSession(agentTranscripts),
              LAMBDA l : l.kind = "usage")

RECURSIVE SumTo(_, _)
SumTo(f, n) == IF n = 0 THEN 0 ELSE f[n] + SumTo(f, n - 1)

\* getSessionInfo has returned, and neither the lookup of the transcript
\* nor a read failed.
Returned == spc = "done" /\ transcriptExists /\ ~call.throws

HasEntries == Returned /\ SessionUsageLines # << >>

NoEntries == spc = "done" /\ (~Returned \/ SessionUsageLines = << >>)

\* C6: with at least one usage entry, tokens is the sum of the four fields
\* of tokenBreakdown, and each field is the sum of the usage field over the
\* usage lines of the primary and the agent transcripts, a missing field
\* counting 0, each line counted once.
C6_TokensAreTheSumOfAllEntries ==
    HasEntries =>
        LET L == SessionUsageLines
            n == Len(L)
            b == sessionInfo.tokenBreakdown
        IN  /\ sessionInfo.tokens = b.input + b.output + b.cacheCreation + b.cacheRead
            /\ b.input = SumTo([k \in 1..n |-> OrZero(L[k].usage.input_tokens)], n)
            /\ b.output = SumTo([k \in 1..n |-> OrZero(L[k].usage.output_tokens)], n)
            /\ b.cacheCreation =
                   SumTo([k \in 1..n |-> OrZero(L[k].usage.cache_creation_input_tokens)], n)
            /\ b.cacheRead =
                   SumTo([k \in 1..n |-> OrZero(L[k].usage.cache_read_input_tokens)], n)

\* A session of three entries, one of them of an agent transcript and one
\* without input, output and cache creation tokens: 100+20+200+50, 100+20
\* and 50 tokens.
C6_Witness ==
    /\ HasEntries
    /\ Len(SessionUsageLines) = 3
    /\ Len(transcript) = 2
    /\ sessionInfo.tokens = 540
    /\ sessionInfo.tokenBreakdown =
           [input |-> 200, output |-> 40, cacheCreation |-> 200, cacheRead |-> 100]

\* C7: cacheHitRate is null iff input + cacheCreation + cacheRead is 0;
\* otherwise it is 100 * cacheRead / (input + cacheCreation + cacheRead),
\* between 0 and 100.
C7_CacheHitRate ==
    HasEntries =>
        LET b == sessionInfo.tokenBreakdown
            total == b.input + b.cacheCreation + b.cacheRead
            r == sessionInfo.cacheHitRate
        IN  /\ r = NullRate <=> total = 0
            /\ total # 0 =>
                  /\ r.den > 0
                  /\ r.num * total = 100 * b.cacheRead * r.den
                  /\ 0 <= r.num
                  /\ r.num <= 100 * r.den

\* 100 input, 200 cache creation and 50 cache read tokens: 100 * 50 / 350.
C7_Witness ==
    /\ HasEntries
    /\ sessionInfo.tokenBreakdown.output > 0
    /\ sessionInfo.cacheHitRate.den = 350
    /\ sessionInfo.cacheHitRate.num = 5000

\* The sum of the costs of the usage lines: the reported costUSD of a line,
\* the cost of the pricing service for a line without one.
CostOfLines ==
    LET L == SessionUsageLines
    IN  SumTo([k \in 1..Len(L) |-> IF L[k].costUSD # Undefined THEN L[k].costUSD
                                   ELSE calculateCostForEntry(L[k])], Len(L))

\* C8 (as claimed): cost is calculatedCost with at least one usage entry,
\* and with zero entries it is the total cost the hook data report.
C8_CostFallsBackToReportedTotal ==
    /\ HasEntries => sessionInfo.cost = sessionInfo.calculatedCost
    /\ (Returned /\ SessionUsageLines = << >>) =>
           sessionInfo.cost = Coalesce(call.hookCost, Null)

\* C8 (amended): cost is calculatedCost, the sum of the costs of the
\* entries, with at least one usage entry; with zero entries cost and
\* officialCost are null, whatever total the hook data report: the reported
\* total is returned as officialCost with entries, and never as cost.
C8_CostIsCalculatedCost ==
    /\ HasEntries =>
          /\ sessionInfo.cost = sessionInfo.calculatedCost
          /\ sessionInfo.calculatedCost = CostOfLines
          /\ sessionInfo.officialCost = Coalesce(call.hookCost, Null)
    /\ NoEntries =>
          /\ sessionInfo.cost = Null
          /\ sessionInfo.officialCost = Null

\* A transcript without usage entries, read with hook data that report a
\* total cost.
C8_Witness ==
    /\ Returned
    /\ Len(transcript) = 0
    /\ SessionUsageLines = << >>
    /\ call.hookCost = 9
    /\ sessionInfo.cost = Null

\* C9: with zero usage entries (transcript not found, empty, or without a
\* line that has a usage object) cost, calculatedCost, tokens,
\* tokenBreakdown, cacheHitRate and burnRate are all null.
C9_NoEntriesNoData ==
    (spc = "done" /\ (~transcriptExists \/ SessionUsageLines = << >>)) =>
        /\ sessionInfo.cost = Null
        /\ sessionInfo.calculatedCost = Null
        /\ sessionInfo.tokens = Null
        /\ sessionInfo.tokenBreakdown = NullBreakdown
        /\ sessionInfo.cacheHitRate = NullRate
        /\ sessionInfo.burnRate = NullRate

\* A transcript of two lines, none with a usage object, and an agent
\* transcript of another session, read with a reported cost and duration.
C9_Witness ==
    /\ Returned
    /\ Len(transcript) = 2
    /\ Len(agentTranscripts) = 1
    /\ SessionUsageLines = << >>
    /\ agentTranscripts[1].lines[1].kind = "usage"
    /\ call.hookCost = 9
    /\ call.hookDurationMs = 120000
    /\ sessionInfo = NullSessionInfo

\* C10: the burn rate is null whenever the cost is null or 0, for the
\* entries of the session and every reported duration.
C10_NoBurnRateWithoutCost ==
    spc = "done" =>
        /\ sessionInfo.cost \in {Null, 0} => sessionInfo.burnRate = NullRate
        /\ \A cost \in {Null, 0}, d \in HookDurations :
               calculateBurnRate(cost, SessionUsageLines, d) = NullRate

\* Two entries a minute apart that cost 0, read with a reported duration.
C10_Witness ==
    /\ HasEntries
    /\ sessionInfo.cost = 0
    /\ Len(SessionUsageLines) >= 2
    /\ \E j, k \in 1..Len(SessionUsageLines) :
          SessionUsageLines[k].timestamp - SessionUsageLines[j].timestamp >= 60000
    /\ call.hookDurationMs = 120000
    /\ sessionInfo.burnRate = NullRate

\* The span of the timestamps of the usage lines of the session, in ms.
TimestampSpan ==
    LET L == SessionUsageLines
        times == {L[k].timestamp : k \in 1..Len(L)}
    IN  IF times = {} THEN 0
        ELSE (CHOOSE t \in times : \A u \in times : u <= t)
             - (CHOOSE t \in times : \A u \in times : t <= u)

\* The raw rate of a call that reports duration d: the cost of the session
\* per hour of the reported duration when it is positive, else per hour of
\* the span of the timestamps of at least two entries a minute or more
\* apart.
RawBurnRate(d) ==
    IF CostOfLines = 0 THEN NullRate
    ELSE IF d # Undefined /\ d > 0 THEN Rate(CostOfLines * 3600000, d)
    ELSE IF Len(SessionUsageLines) >= 2 /\ TimestampSpan >= 60000
    THEN Rate(CostOfLines * 3600000, TimestampSpan)
    ELSE NullRate

\* A rate in cost units per hour over minutes (the durations of the model
\* are whole minutes).
PerMinute(r) == [num |-> r.num \div 60000, den |-> r.den \div 60000]

\* C11 (as claimed): when a call has produced the rate R0 and the session
\* is read again at once, the raw rate of the second call being R1, the
\* second call returns 0.3 * R1 + 0.7 * R0.
C11_SecondSampleIsSmoothed ==
    (HasEntries /\ sessionInfo.burnRate # NullRate) =>
        \A d \in HookDurations :
            LET second == getSessionInfo(transcriptExists, FALSE, transcript,
                                         agentTranscripts, call.hookCost, d).burnRate
                out == PerMinute(second)
                r0 == PerMinute(sessionInfo.burnRate)
                r1 == PerMinute(RawBurnRate(d))
            IN  RawBurnRate(d) # NullRate =>
                    /\ second # NullRate
                    /\ out.num * 10 * r0.den * r1.den
                       = out.den * (3 * r1.num * r0.den + 7 * r0.num * r1.den)

\* C12: the burn rate of a call is the raw rate of that call, without
\* smoothing: the provider keeps no previous rate, so every sample is a
\* first sample.
C12_FirstSampleIsRaw ==
    HasEntries => sessionInfo.burnRate = RawBurnRate(call.hookDurationMs)

\* A session of two entries a minute apart that cost 14 in all, read
\* without a reported duration: 14 per minute, 840 per hour.
C12_Witness ==
    /\ HasEntries
    /\ call.hookDurationMs = Undefined
    /\ sessionInfo.cost = 14
    /\ sessionInfo.burnRate = Rate(14 * 3600000, 60000)

\* ------------------------------------------------------------------------
\* Properties of the rate-limit cache
\* ------------------------------------------------------------------------
\* An invocation has read the file and now takes its step of readCache.
Checking(p) == inv[p].pc = "check"

\* The entry an invocation has read has a numeric timestamp.
ReadsTimedEntry(p) ==
    /\ inv[p].read.exists
    /\ IsJson(inv[p].read.text)
    /\ JsonParse(inv[p].read.text).timestamp # Undefined

AgeRead(p) == dateNow - JsonParse(inv[p].read.text).timestamp

\* C13: an invocation that read a cache entry with timestamp ts returns it
\* without a fetch only while Date.now() - ts <= 30000; an older entry is
\* treated like an absent file (the invocation goes on to the token and the
\* fetch) and is never returned; an entry of that age or less that holds a
\* RateLimitsInfo is returned.
C13_CacheEntryUsedWithinTTL ==
    [][\A p \in Invocations :
          (Checking(p) /\ inv'[p] # inv[p] /\ ReadsTimedEntry(p)) =>
              LET entry == JsonParse(inv[p].read.text)
              IN  /\ inv'[p].source = "cache" => AgeRead(p) <= CACHE_TTL_MS
                  /\ AgeRead(p) > CACHE_TTL_MS =>
                        /\ inv'[p].pc = "token"
                        /\ inv'[p].cached = NullInfo
                        /\ inv'[p].result = NullInfo
                  /\ (AgeRead(p) <= CACHE_TTL_MS /\ entry.data.kind = "object") =>
                        /\ inv'[p].pc = "done"
                        /\ inv'[p].source = "cache"
                        /\ inv'[p].result = entry.data]_vars

\* Invocation b returns from the cache what invocation a fetched and
\* wrote; by now that entry is 30000 ms old or older.
C13_Witness ==
    /\ inv["a"].pc = "done" /\ inv["a"].source = "api"
    /\ lastWriter = "a"
    /\ inv["b"].pc = "done" /\ inv["b"].source = "cache"
    /\ inv["b"].read.text = Stringify(inv["a"].entry)
    /\ inv["b"].result = inv["a"].info
    /\ dateNow - inv["a"].entry.timestamp >= CACHE_TTL_MS

\* The shape of a CacheEntry: a JSON text with a numeric timestamp and a
\* data object.
ValidShape(file) ==
    /\ file.exists
    /\ IsJson(file.text)
    /\ JsonParse(file.text).timestamp # Undefined
    /\ JsonParse(file.text).data.kind = "object"

\* C14: the cache reader uses the content of the file only when its shape
\* is valid (a numeric timestamp and a data object); on any other content
\* it yields null, and nothing of that content is returned.
C14_CacheReaderValidatesShape ==
    \A p \in Invocations :
        (inv[p].pc \notin {"readFile", "check"} /\ ~ValidShape(inv[p].read)) =>
            /\ inv[p].cached = NullInfo
            /\ inv[p].source # "cache"

\* No invocation is between the open and the end of its writeFile.
NoWriteInProgress == \A p \in Invocations : inv[p].pc \notin {"open", "write"}

BothWrote == \A p \in Invocations : inv[p].pc = "done" /\ inv[p].entry # NoEntry

\* C15: when two invocations have both missed the cache, fetched and
\* written, the file holds exactly the entry of the one that wrote last;
\* and a read yields null or the data of one whole entry.
C15_LastWriteWins ==
    /\ BothWrote => cacheFile = FileOf(Stringify(inv[lastWriter].entry))
    /\ \A p \in Invocations :
          inv[p].cached # NullInfo =>
              /\ IsJson(inv[p].read.text)
              /\ inv[p].cached = JsonParse(inv[p].read.text).data

\* ------------------------------------------------------------------------
\* Properties of the two providers under failure
\* ------------------------------------------------------------------------
\* The number of running agents the tracker reports.
Count == Len(Running(agents))

Found(k) ==
    \E j \in 1..Len(findAgentTranscripts(SessionId, agentTranscripts)) :
        findAgentTranscripts(SessionId, agentTranscripts)[j] = agentTranscripts[k]

Eligible(k) ==
    /\ agentTranscripts[k].prefix = "agent-"
    /\ agentTranscripts[k].suffix = ".jsonl"
    /\ agentTranscripts[k].sessionId = SessionId

MainChain(k) ==
    /\ transcript[k].kind = "usage"
    /\ transcript[k].usage.input_tokens \notin {Undefined, 0}
    /\ ~transcript[k].isSidechain

Rendered == spc = "rendered" /\ transcriptExists /\ ~call.throws

\* C18: the context is that of the most recent line, in file order, with
\* non-zero input_tokens that is not a sidechain turn (none: no context),
\* so a sidechain turn is never the source of the context; the cost and the
\* token totals of the session count every turn with usage, sidechain
\* turns included.
C18_SidechainOutOfContextInTotals ==
    Rendered =>
        LET main == {k \in 1..Len(transcript) : MainChain(k)}
            L == SelectSeq(transcript, LAMBDA l : l.kind = "usage")
            n == Len(L)
        IN  /\ main = {} => contextInfo.isNull
            /\ main # {} =>
                  LET u == transcript[CHOOSE k \in main : \A j \in main : j <= k].usage
                  IN  /\ ~contextInfo.isNull
                      /\ contextInfo.totalTokens =
                            OrZero(u.input_tokens)
                            + OrZero(u.cache_read_input_tokens)
                            + OrZero(u.cache_creation_input_tokens)
                            + (IF contextInfo.rev = "second"
                               THEN OrZero(u.output_tokens) ELSE 0)
            /\ n > 0 =>
                  /\ sessionInfo.tokens =
                        SumTo([k \in 1..n |->
                                  OrZero(L[k].usage.input_tokens)
                                  + OrZero(L[k].usage.output_tokens)
                                  + OrZero(L[k].usage.cache_creation_input_tokens)
                                  + OrZero(L[k].usage.cache_read_input_tokens)], n)
                  /\ sessionInfo.calculatedCost =
                        SumTo([k \in 1..n |->
                                  IF L[k].costUSD # Undefined THEN L[k].costUSD
                                  ELSE calculateCostForEntry(L[k])], n)

\* A main-chain turn of 100+20+200+50 tokens, then a sidechain turn of
\* 1000+100: the context is that of the first (350 tokens), the session
\* has 1470 tokens and costs 14 + 45.
C18_Witness ==
    /\ Rendered
    /\ Len(transcript) = 2
    /\ MainChain(1)
    /\ transcript[1].usage = FullUsage
    /\ transcript[1].costUSD = Undefined
    /\ transcript[2] = SidechainLine
    /\ contextInfo.rev = "first"
    /\ contextInfo.totalTokens = 350
    /\ sessionInfo.tokens = 1470
    /\ sessionInfo.calculatedCost = 59

\* ------------------------------------------------------------------------
\* Properties of the replay of a line that fails
\* ------------------------------------------------------------------------
\* The state of the replay loop.
ReplayState == [map |-> agentMap, bg |-> backgroundAgentMap, skill |-> lastSkill]

\* C19: a line whose parsing or processing throws is skipped as a whole: it
\* changes neither the registry, nor the map of background ids, nor the
\* last skill; and the line after it is processed as if it followed the
\* lines before.
C19_FailedLineSkippedWhole ==
    pc = "replay" =>
        \A l \in ThrowingLines :
            l.timestamp \in Stamps(logTime) =>
                /\ ProcessLine(rev, ReplayState, l, clock) = ReplayState
                /\ \A l2 \in BlockLines :
                      l2.timestamp = Undefined =>
                          ProcessLine(rev, ProcessLine(rev, ReplayState, l, clock),
                                      l2, clock)
                          = ProcessLine(rev, ReplayState, l2, clock)

\* ------------------------------------------------------------------------
\* Properties of the eviction
\* ------------------------------------------------------------------------
CompletedIds == {j \in MapIds(agentMap) : IsCompleted(agentMap, j)}

\* The running records that have run for more than 30 minutes.
StaleIds ==
    {j \in MapIds(agentMap) :
        /\ IsRunning(agentMap, j)
        /\ clock - MapGet(agentMap, j).startTime > STALE_AGENT_THRESHOLD_MS}

Oldest(S) ==
    {j \in S : \A k \in S : MapGet(agentMap, j).startTime <= MapGet(agentMap, k).startTime}

\* Who may be evicted: an oldest completed record; if none is completed, an
\* oldest stale running record; else nobody.
Evictable == IF CompletedIds # {} THEN Oldest(CompletedIds) ELSE Oldest(StaleIds)

\* The records a launch of id i took out of the registry or changed, the
\* record of i itself apart.
Lost(new, i) ==
    {j \in MapIds(agentMap) \ {i} :
        ~(MapHas(new, j) /\ MapGet(new, j) = MapGet(agentMap, j))}

\* C20: a launch into a registry of MAX_AGENT_MAP_SIZE records or more
\* evicts at most one record: the oldest completed one by startTime; else
\* the oldest of the running ones that have run for more than 30 minutes;
\* else none.  A running record of 30 minutes or less is never evicted, and
\* the new record is inserted in every case.
C20_EvictionPriority ==
    (pc = "replay" /\ Len(agentMap) >= MAX_AGENT_MAP_SIZE) =>
        \A i \in Ids, t \in Times :
            LET new == LaunchAgent(agentMap, i, t, clock)
            IN  /\ Cardinality(Lost(new, i)) <= 1
                /\ Evictable = {} => Lost(new, i) = {}
                /\ Evictable # {} => \E c \in Evictable : Lost(new, i) = {c} \ {i}
                /\ \A j \in MapIds(agentMap) \ (CompletedIds \cup StaleIds) :
                      j \notin Lost(new, i)
                /\ MapHas(new, i)
                /\ MapGet(new, i) = NewAgent(i, t)
                /\ Len(new) = Cardinality(MapIds(new))

\* A registry at its cap that holds a completed record and a running one
\* of 30 minutes or less: the launch of another id evicts the completed
\* record, keeps the running one and inserts the new one.
C20_Witness ==
    /\ pc = "replay"
    /\ Len(agentMap) = MAX_AGENT_MAP_SIZE
    /\ \E i \in Ids \ MapIds(agentMap), c \in CompletedIds, j \in MapIds(agentMap) :
          /\ IsRunning(agentMap, j)
          /\ j \notin StaleIds
          /\ Lost(LaunchAgent(agentMap, i, clock, clock), i) = {c}
          /\ MapIds(LaunchAgent(agentMap, i, clock, clock))
             = (MapIds(agentMap) \ {c}) \cup {i}

\* ------------------------------------------------------------------------
\* Properties of the hand-off, the output assembly and the signals
\* ------------------------------------------------------------------------
\* C21: a tool_result for a launched id whose content contains 'Async
\* agent launched' leaves the record running without endTime; when its text
\* carries a background id, that id is the bgAgentId of the record and the
\* background map sends it to the id of the launch.
C21_HandOffRecordsBackgroundId ==
    pc = "replay" =>
        \A i \in Ids, x \in BgIds \cup {NoBg}, t \in Stamps(logTime) :
            LET s2 == ProcessLine(rev, ProcessLine(rev, Cur, LaunchLine(i, t), clock),
                                  ResultLine(i, t, TRUE, x, NoSignal), clock)
            IN  /\ IsRunning(s2.map, i)
                /\ MapGet(s2.map, i).endTime = Undefined
                /\ x # NoBg =>
                      /\ MapGet(s2.map, i).bgAgentId = x
                      /\ s2.bg[x] = i

\* The smaller of two numbers.
Least(a, b) == IF a <= b THEN a ELSE b

\* C22: the returned list has at most MAX_DISPLAY_AGENTS entries, running
\* ones before completed ones.  With r running records, r below the limit,
\* it is the r running records followed by the last min(limit - r, number
\* of completed) completed records in registry order; with r at the limit
\* or above it holds no completed record.
C22_DisplayRunningThenRecentCompleted ==
    pc = "done" =>
        LET R == Running(agentMap)
            C == Completed(agentMap)
            r == Len(R)
            shown == Least(r, MAX_DISPLAY_AGENTS)
            k == IF r < MAX_DISPLAY_AGENTS
                 THEN Least(MAX_DISPLAY_AGENTS - r, Len(C)) ELSE 0
        IN  /\ Len(agents) <= MAX_DISPLAY_AGENTS
            /\ Len(agents) = shown + k
            /\ \A j \in 1..shown : agents[j] = R[j]
            /\ \A j \in 1..k : agents[shown + j] = C[Len(C) - k + j]
            /\ \A a \in 1..Len(agents), b \in 1..Len(agents) :
                  (agents[a].status = "completed" /\ agents[b].status = "running")
                      => b < a
            /\ r >= MAX_DISPLAY_AGENTS =>
                  \A j \in 1..Len(agents) : agents[j].status = "running"

\* One running record and two completed ones: the list is the running one
\* and the later of the completed ones.
C22_Witness ==
    /\ pc = "done"
    /\ Len(agentMap) = 3
    /\ Len(Running(agentMap)) = 1
    /\ agentMap[1].status = "completed"
    /\ agents = <<Running(agentMap)[1], Completed(agentMap)[2]>>

\* ------------------------------------------------------------------------
\* Properties of the source of the burn rate
\* ------------------------------------------------------------------------
\* The call reports a positive duration.
DurationReported == call.hookDurationMs # Undefined /\ call.hookDurationMs > 0

\* C23 (as claimed): the rate is taken from the timestamps whenever at
\* least two entries span more than a minute; the reported duration, if
\* positive, is used only when the timestamps give no rate; else null.
C23_TimestampsBeforeReportedDuration ==
    (HasEntries /\ CostOfLines > 0) =>
        sessionInfo.burnRate =
            IF Len(SessionUsageLines) >= 2 /\ TimestampSpan > 60000
            THEN Rate(CostOfLines * 3600000, TimestampSpan)
            ELSE IF DurationReported
            THEN Rate(CostOfLines * 3600000, call.hookDurationMs)
            ELSE NullRate

\* C23 (amended): the rate is the cost per hour of the reported duration
\* whenever that duration is positive; the timestamps are used only when
\* no positive duration is reported, and then with at least two entries
\* that span a minute or more; when neither gives a value, and when the
\* cost is 0, the rate is null.
C23_ReportedDurationBeforeTimestamps ==
    HasEntries =>
        /\ (CostOfLines > 0 /\ DurationReported) =>
              sessionInfo.burnRate = Rate(CostOfLines * 3600000, call.hookDurationMs)
        /\ (CostOfLines > 0 /\ ~DurationReported
            /\ Len(SessionUsageLines) >= 2 /\ TimestampSpan >= 60000) =>
              sessionInfo.burnRate = Rate(CostOfLines * 3600000, TimestampSpan)
        /\ (~DurationReported
            /\ (Len(SessionUsageLines) < 2 \/ TimestampSpan < 60000)) =>
              sessionInfo.burnRate = NullRate
        /\ CostOfLines = 0 => sessionInfo.burnRate = NullRate

\* Two entries a minute apart that cost 28 in all, and a reported duration
\* of two minutes: the rate is 28 per two minutes, not 28 per minute.
C23_Witness ==
    /\ HasEntries
    /\ Len(SessionUsageLines) = 2
    /\ TimestampSpan = 60000
    /\ call.hookDurationMs = 120000
    /\ CostOfLines = 28
    /\ sessionInfo.burnRate = Rate(28 * 3600000, 120000)

\* An invocation whose one request failed.
FetchFailed(p) ==
    /\ inv[p].pc = "done"
    /\ inv[p].source = "api"
    /\ inv[p].info = NullInfo

\* C24: one invocation sends at most one request; a step in which the request
\* fails ends the invocation with null, sends nothing again and leaves the cache
\* file as it was; the cache file changes only in the write of an invocation
\* whose one request brought a parsed response; a finished invocation takes no
\* further step.
C24_SingleAttemptNoWriteOnFailure ==
    [][/\ \A p \in Invocations :
             /\ inv'[p].requests <= 1
             /\ (inv'[p].requests # inv[p].requests /\ inv'[p].info = NullInfo) =>
                    /\ FetchFailed(p)'
                    /\ inv'[p].result = NullInfo
                    /\ inv'[p].entry = NoEntry
                    /\ cacheFile' = cacheFile
             /\ inv[p].pc = "done" => inv'[p] = inv[p]
       /\ cacheFile' # cacheFile =>
             \E p \in Invocations :
                 /\ inv[p].pc \in {"open", "write"}
                 /\ inv'[p] # inv[p]
                 /\ inv[p].requests = 1
                 /\ inv[p].info # NullInfo]_vars

\* One invocation has failed after its one request, and the cache file holds
\* what the other invocation wrote after its successful request.
C24_Witness ==
    /\ FetchFailed("a")
    /\ inv["a"].requests = 1
    /\ inv["a"].result = NullInfo
    /\ inv["b"].pc = "done" /\ inv["b"].source = "api" /\ inv["b"].requests = 1
    /\ lastWriter = "b"
    /\ cacheFile.text = Stringify(inv["b"].entry)

\* C25: the enrichment never fails the tracker.  In the newer revision, with
\* the enrichment asked for, whatever the agent files hold and whether or not
\* the pricing collaborator is available: no rejection reaches the catch of the
\* parse, so the list returned is the list assembled; a record whose file is
\* missing or unreadable, or whose cost cannot be computed, has tokens and cost
\* unset; a record without a bgAgentId is never enriched.
C25_EnrichmentNeverFailsTracker ==
    (pc = "replay" /\ rev = "part_006") =>
        \A files \in [BgIds -> TokenFiles], available \in BOOLEAN :
            LET list == DisplayAgents(StalePass(agentMap, clock))
                e == EnrichAgents(list, TRUE, files, available)
            IN  /\ ~EnrichmentThrows(e)
                /\ \A k \in 1..Len(list) :
                       LET b == list[k].bgAgentId
                       IN  /\ b = NoBg => e[k] = Unenriched
                           /\ (b # NoBg /\ (~files[b].exists \/ ~files[b].readable
                                            \/ ~available)) =>
                                  /\ e[k].tokens.isNull
                                  /\ e[k].cost = Undefined

\* The line launches no agent under the id i.
NoLaunchOf(l, i) ==
    \A k \in 1..Len(l.blocks) : ~(l.blocks[k].kind = "launch" /\ l.blocks[k].id = i)

\* The record of i has the status and the endTime it has in m.
SameCompletion(m, m2, i) ==
    /\ MapGet(m2, i).status = MapGet(m, i).status
    /\ MapGet(m2, i).endTime = MapGet(m, i).endTime

\* C26: 'completed' is absorbing.  A record that is completed keeps its status
\* and its endTime, as long as it is in the registry, through every later line
\* that does not launch its id again, and through the stale pass.
C26_CompletedIsAbsorbing ==
    pc = "replay" =>
        \A i \in Ids :
            IsCompleted(agentMap, i) =>
                /\ \A l \in Lines :
                       (l.timestamp \in Stamps(logTime) /\ NoLaunchOf(l, i)) =>
                           LET s == ProcessLine(rev, Cur, l, clock)
                           IN  MapHas(s.map, i) => SameCompletion(agentMap, s.map, i)
                /\ SameCompletion(agentMap, StalePass(agentMap, clock), i)

\* The terminal signals for the background id x: a task-notification in either
\* field, and the result of a TaskOutput call.
TerminalSignalLines(x, t) ==
    {NotifyLine(t, [taskId |-> x, status |-> "completed"], NoSignal),
     NotifyLine(t, NoSignal, [taskId |-> x, status |-> "Failed"]),
     ResultLine(OtherId, t, FALSE, NoBg, [taskId |-> x, status |-> "completed"])}

\* The hand-off of the record of i to the background id x.
HandOffLine(i, x, t) == ResultLine(i, t, TRUE, x, NoSignal)

\* C27: a terminal signal for a background id that no hand-off has registered
\* yet changes nothing; the hand-off that follows leaves the record running,
\* as if the signal had not been there; a terminal signal after the hand-off
\* completes it at the time of that signal, and without one only the stale pass
\* completes it.
C27_SignalBeforeHandOffIgnored ==
    pc = "replay" =>
        \A i \in Ids, x \in BgIds, t \in Stamps(logTime) :
            (IsRunning(agentMap, i) /\ backgroundAgentMap[x] = NoId) =>
                \A early \in TerminalSignalLines(x, t) :
                    LET s1 == ProcessLine(rev, Cur, early, clock)
                        s2 == ProcessLine(rev, s1, HandOffLine(i, x, t), clock)
                    IN  /\ s1.map = agentMap
                        /\ s1.bg = backgroundAgentMap
                        /\ s2 = ProcessLine(rev, Cur, HandOffLine(i, x, t), clock)
                        /\ IsRunning(s2.map, i)
                        /\ s2.bg[x] = i
                        /\ \A late \in TerminalSignalLines(x, t) :
                               LET s3 == ProcessLine(rev, s2, late, clock)
                               IN  /\ IsCompleted(s3.map, i)
                                   /\ MapGet(s3.map, i).endTime = LineTime(late, clock)
                        /\ IsCompleted(StalePass(s2.map, clock), i)
                              <=> clock - MapGet(agentMap, i).startTime
                                     > STALE_AGENT_THRESHOLD_MS

\* A record is running and no hand-off has named the background id; a
\* notification for that id leaves the registry as it is, and the same
\* notification after the hand-off completes the record.
C27_Witness ==
    /\ pc = "replay"
    /\ IsRunning(agentMap, 1)
    /\ backgroundAgentMap[1] = NoId
    /\ LET early == NotifyLine(logTime, [taskId |-> 1, status |-> "completed"], NoSignal)
           s1 == ProcessLine(rev, Cur, early, clock)
           s2 == ProcessLine(rev, s1, HandOffLine(1, 1, logTime), clock)
           s3 == ProcessLine(rev, s2, early, clock)
       IN  /\ s1.map = agentMap
           /\ IsRunning(s2.map, 1)
           /\ IsCompleted(s3.map, 1)

\* The record of i was handed off to the background id x and has since been
\* evicted: the background map still names i, the registry does not hold it.
EvictedBackground(i, x) == backgroundAgentMap[x] = i /\ ~MapHas(agentMap, i)

\* C28: signals for a record that is no longer in the registry change nothing.
\* A tool_result for its id, foreground or hand-off, and a terminal signal for
\* the background id that still maps to it, leave the registry as it is: the
\* record is not created again, and no other record changes.
C28_SignalsForEvictedRecordIgnored ==
    pc = "replay" =>
        \A i \in Ids, t \in Stamps(logTime) :
            ~MapHas(agentMap, i) =>
                /\ \A x \in BgIds \cup {NoBg}, async \in BOOLEAN :
                       (x # NoBg => async) =>
                           ProcessLine(rev, Cur, ResultLine(i, t, async, x, NoSignal),
                                       clock).map = agentMap
                /\ \A x \in BgIds :
                       EvictedBackground(i, x) =>
                           \A l \in TerminalSignalLines(x, t) :
                               /\ ProcessLine(rev, Cur, l, clock).map = agentMap
                               /\ ProcessLine(rev, Cur, l, clock).bg = backgroundAgentMap

\* A record was handed off and evicted while another record is running; a
\* notification for its background id, and a tool_result for its id, change
\* nothing.
C28_Witness ==
    /\ pc = "replay"
    /\ \E i \in Ids, x \in BgIds :
          /\ EvictedBackground(i, x)
          /\ Len(Running(agentMap)) > 0
          /\ ProcessLine(rev, Cur,
                         NotifyLine(logTime, [taskId |-> x, status |-> "completed"],
                                    NoSignal), clock).map = agentMap
          /\ ProcessLine(rev, Cur, ResultLine(i, logTime, FALSE, NoBg, NoSignal),
                         clock).map = agentMap

\* The result of getSessionUsage on the files as they are.
SessionUsageNow ==
    getSessionUsage(transcriptExists, FALSE, transcript, agentTranscripts)

\* C29: in every result of getSessionUsage the entries are the lines with a
\* usage object, in order, of the primary transcript and the agent transcripts
\* of the session; each has a costUSD, the one its line reports or else the one
\* of the pricing service; totalCost is the sum of these; a line without a
\* usage object adds no entry and no cost.
C29_TotalCostIsSumOfEntryCosts ==
    LET u == SessionUsageNow
        L == SessionUsageLines
        n == Len(u.entries)
    IN  ~u.isNull =>
            /\ n = Len(L)
            /\ \A k \in 1..n :
                   /\ u.entries[k].costUSD # Undefined
                   /\ u.entries[k].costUSD =
                          IF L[k].costUSD # Undefined THEN L[k].costUSD
                          ELSE calculateCostForEntry(L[k])
                   /\ u.entries[k].timestamp = L[k].timestamp
            /\ u.totalCost = SumTo([k \in 1..n |-> u.entries[k].costUSD], n)

\* A transcript of a line without usage and a line that reports its cost,
\* and an agent transcript with a line that does not: two entries, 7 and 14.
C29_Witness ==
    /\ transcriptExists
    /\ Len(transcript) = 2
    /\ transcript[1].kind = "plain"
    /\ Len(SessionUsageNow.entries) = 2
    /\ SessionUsageNow.entries[1].costUSD = 7
    /\ SessionUsageNow.entries[2].costUSD = 14
    /\ SessionUsageNow.totalCost = 21

\* A line that qualifies: a parsed user entry whose content is not system
\* content and leaves a text of more than one character.
Qualifies(line) ==
    /\ line.json
    /\ line.type = "user"
    /\ line.role = "user"
    /\ line.content \in {FixContent, TestsContent}

PromptOf(line) == IF line.content = FixContent THEN "fix the bug" ELSE "add tests"

\* The lines the limit lets through, and the first of them that qualifies.
WithinLimit == {k \in 1..Len(reader.seen) : k <= maxLines}

FirstPrompt == {k \in WithinLimit : Qualifies(reader.seen[k])
                                     /\ \A j \in 1..(k - 1) : ~Qualifies(reader.seen[j])}

\* C30: under every order of the 'line', 'close' and 'error' events resolve
\* is called at most once, and has been called once as soon as a 'close' or an
\* 'error' was emitted, a qualifying line was emitted within the limit, or a
\* line beyond the limit was; the value is the text of the first qualifying
\* line among the lines emitted, within the limit, before the first 'close' or
\* 'error', and null without one; what is emitted afterwards changes neither.
C30_ResolvesExactlyOnce ==
    /\ reader.resolves <= 1
    /\ reader.resolved <=> reader.resolves = 1
    /\ (reader.ended \/ FirstPrompt # {} \/ Len(reader.seen) > maxLines) =>
           reader.resolves = 1
    /\ reader.resolves = 1 =>
           /\ FirstPrompt # {} =>
                  \A k \in FirstPrompt : reader.value = Text(PromptOf(reader.seen[k]))
           /\ FirstPrompt = {} => reader.value = NullText
    /\ reader.linesRead <= maxLines + 1

\* The second line qualifies and resolves the promise; a third line, a 'close'
\* and both 'error' events follow.
C30_Witness ==
    /\ reader.resolves = 1
    /\ reader.value = Text("fix the bug")
    /\ Len(reader.seen) = 2
    /\ ~Qualifies(reader.seen[1])
    /\ reader.seen[1].type = "user"
    /\ reader.emitted = 3
    /\ reader.errors = {"rl", "stream"}
    /\ reader.linesRead = 2
====
